---- MODULE Spec2Model ----
(***************************************************************************)
(* Model of the gappsd job engine: the gapps_queue table, the job record   *)
(* (gappsd/job.py), the queue manager (gappsd/queue.py) and the admin      *)
(* console (gappsd/cli.py) as two drivers of the same table, and the       *)
(* supervisor of the queue manager (gappsd/daemon.py).                     *)
(*                                                                         *)
(* Time is the wall clock in seconds.  Dates are absolute clock values,    *)
(* NULL is the SQL NULL / Python None.                                     *)
(***************************************************************************)
EXTENDS Integers, Sequences, FiniteSets, TLC

VARIABLES
  now,                \* wall clock (NOW() / datetime.datetime.now())
  config,             \* the configuration both programs were started with
  rows,               \* table gapps_queue: sequence of rows, q_id = index
  qpc,                \* position of the queue manager inside Queue.Run
  job_counts,         \* _ProcessNextJob: result of _GetJobCounts
  delays,             \* _GetNextPriorityQueue: result of _GetCurrentQueueDelays
  qi,                 \* _GetNextPriorityQueue: index in _PRIORITY_ORDER
  last_jobs,          \* Queue._last_jobs
  last_overflow_warning, \* Queue._last_overflow_warning
  transient_errors,   \* Queue._transient_errors
  qjob,               \* the job object held by _ProcessNextJob (Job._data)
  qexc,               \* the exception that ended Queue.Run, or "none"
  served,             \* history: classes yielded in the current poll cycle
  cpc,                \* position of the admin console inside Cli.Run
  cjobs,              \* CliQueue._jobs
  dpc,                \* position of the supervisor inside Daemon.Run
  d_transient_errors, \* Daemon._transient_errors (the dates)
  deadline,           \* Daemon._deadline
  sql_left,           \* the SQL server: statements it will still fail
  google_nicknames,   \* the aliases of the domain at Google: alias -> owner
  gapps_nicknames,    \* the table gapps_nicknames: g_nickname -> g_account_name
  last                \* history: the last operation on the table or the clock

vars == <<now, config, rows, qpc, job_counts, delays, qi, last_jobs,
          last_overflow_warning, transient_errors, qjob, qexc, served, cpc,
          cjobs, dpc, d_transient_errors, deadline, sql_left,
          google_nicknames, gapps_nicknames, last>>

queueVars == <<qpc, job_counts, delays, qi, last_jobs,
               last_overflow_warning, transient_errors, qjob, qexc, served>>
cliVars == <<cpc, cjobs>>
daemonVars == <<dpc, d_transient_errors, deadline, sql_left>>
nickVars == <<google_nicknames, gapps_nicknames>>

-----------------------------------------------------------------------------
(* Bounds of the model. *)

MaxJobs == 2          \* rows ever inserted in gapps_queue
MaxTime == 90         \* the clock stops here
JobSoftfailThreshold == 2   \* gappsd.job-softfail-threshold of the run
MaxRunTime == 30      \* a handler returns or raises within this time

\* The clock advances by these amounts between two steps of a driver.
ClockSteps == {30}

NULL == -1
NoJob == [q_id |-> 0]
NoOp == [op |-> "none"]

\* The aliases and the accounts of the domain; NoUser is the owner of an
\* alias that does not exist (a key that is not in the dict, or no row).
Nicknames == {"n1", "n2"}
Usernames == {"u1", "u2"}
NoUser == ""
NoNicknames == [nickname \in Nicknames |-> NoUser]

-----------------------------------------------------------------------------
(* Program constants. *)

STATUS_IDLE == "idle"
STATUS_ACTIVE == "active"
STATUS_SUCCESS == "success"
STATUS_SOFTFAIL == "softfail"
STATUS_HARDFAIL == "hardfail"

\* Faulty variant: the classes in the opposite order.
ReversedOrder == <<"offline", "normal", "immediate">>

_PRIORITY_ORDER == <<"immediate", "normal", "offline">>
Priorities == {_PRIORITY_ORDER[i] : i \in 1..3}
_MAX_QUEUE_DELAY == 86400
ACTIVE_LEASE == 90
_TRANSIENT_ERRORS_VALIDITY == 3600
_CREDENTIAL_ERRORS_THRESHOLD == 2
_TRANSIENT_ERRORS_THRESHOLD == 4

\* Configurations the programs are started with.  The delays are multiples of
\* the clock step; the softfail delay is shorter than the active lease.
Configs ==
  [read_only : BOOLEAN, admin_only_jobs : BOOLEAN,
   queue_min_delay : {30}, queue_delay_normal : {60},
   queue_delay_offline : {90}, queue_warn_overflow : {TRUE},
   job_softfail_delay : {60},
   job_softfail_threshold : {JobSoftfailThreshold}, max_run_time : {3600}]

\* job_registry: the tags registered at module load (a subset: one handler
\* that parks and has side effects, one without side effects, the alias
\* resynchronisation and the two reports).
Registered ==
  {"u_delete", "u_sync", "n_create", "n_delete", "n_resync", "r_activity",
   "r_accounts"}
JobTypes == {"u_delete", "u_sync", "foo"}

-----------------------------------------------------------------------------
(* The SQL boundary. *)

\* SQL.Update(table, values, {"q_id": q}): a point update of the named columns.
SqlUpdate(rws, values, q) ==
  IF q \in DOMAIN rws
  THEN [rws EXCEPT ![q] =
          [c \in DOMAIN @ |-> IF c \in DOMAIN values THEN values[c] ELSE @[c]]]
  ELSE rws

\* dict.update restricted to the fields of Job._data that are read again.
DataUpdate(data, values) ==
  [c \in DOMAIN data |-> IF c \in DOMAIN values THEN values[c] ELSE data[c]]

\* Faulty variant: the row is inserted with its start date set.
NewRowStarted(j_type, p_priority, entry, notbefore) ==
  [j_type |-> j_type, j_parameters |-> "{}", p_priority |-> p_priority,
   p_admin_request |-> FALSE,
   p_status |-> STATUS_IDLE, p_entry_date |-> entry, p_start_date |-> entry,
   p_end_date |-> NULL, p_notbefore_date |-> notbefore,
   r_softfail_count |-> 0, r_softfail_date |-> NULL, r_result |-> ""]

\* CreateQueueJob / the producer's INSERT: the columns not named take the
\* table's defaults.
NewRow(j_type, p_priority, entry, notbefore) ==
  [j_type |-> j_type, j_parameters |-> "{}", p_priority |-> p_priority,
   p_admin_request |-> FALSE,
   p_status |-> STATUS_IDLE, p_entry_date |-> entry, p_start_date |-> NULL,
   p_end_date |-> NULL, p_notbefore_date |-> notbefore,
   r_softfail_count |-> 0, r_softfail_date |-> NULL, r_result |-> ""]

CreateQueueJob(rws, j_type, p_priority, entry, notbefore) ==
  Append(rws, NewRow(j_type, p_priority, entry, notbefore))

-----------------------------------------------------------------------------
(* Eligibility (queue.py, the two WHERE clauses). *)

\* Faulty variant: no lease on the active rows.
NoLease(r, t) == TRUE

LeaseClause(r, t) ==
  \/ r.p_start_date = NULL
  \/ r.p_status = STATUS_IDLE
  \/ r.p_start_date + ACTIVE_LEASE <= t

\* Faulty variant: the clause without its p_status filter.
WhereClauseAnyStatus(r, t) ==
  /\ r.p_notbefore_date # NULL /\ r.p_notbefore_date <= t
  /\ r.p_admin_request = FALSE
  /\ LeaseClause(r, t)

\* Faulty variant: the clause without the rows left active.
WhereClauseNoOrphans(r, t) ==
  /\ r.p_status \in {STATUS_IDLE, STATUS_SOFTFAIL}
  /\ r.p_notbefore_date # NULL /\ r.p_notbefore_date <= t
  /\ r.p_admin_request = FALSE
  /\ LeaseClause(r, t)

_ACTIVE_JOBS_WHERE_CLAUSE(r, t) ==
  /\ r.p_status \in {STATUS_IDLE, STATUS_ACTIVE, STATUS_SOFTFAIL}
  /\ r.p_notbefore_date # NULL /\ r.p_notbefore_date <= t
  /\ r.p_admin_request = FALSE
  /\ LeaseClause(r, t)

\* Faulty variant: the admin clause without its p_admin_request filter.
AdminClauseNoFlag(r, t) ==
  /\ r.p_status \in {STATUS_IDLE, STATUS_ACTIVE, STATUS_SOFTFAIL}
  /\ LeaseClause(r, t)

_ACTIVE_JOBS_WHERE_CLAUSE_ADMIN(r, t) ==
  /\ r.p_status \in {STATUS_IDLE, STATUS_ACTIVE, STATUS_SOFTFAIL}
  /\ r.p_admin_request = TRUE
  /\ LeaseClause(r, t)

Min(S) == CHOOSE x \in S : \A y \in S : x <= y
Max2(a, b) == IF a >= b THEN a ELSE b

-----------------------------------------------------------------------------
(* The job record (job.py). *)

\* Job.__init__: the fields of the selected row kept in Job._data.
JobData(rws, q) ==
  [q_id |-> q, p_status |-> rws[q].p_status,
   r_softfail_count |-> rws[q].r_softfail_count, j_type |-> rws[q].j_type]

\* Faulty variant: the row is made softfail.
MarkFailedSoft(message, t) ==
  [p_status |-> STATUS_SOFTFAIL, p_end_date |-> t, r_result |-> message]

\* Job.MarkFailed
MarkFailedValues(message, t) ==
  [p_status |-> STATUS_HARDFAIL, p_end_date |-> t, r_result |-> message]

\* Faulty variant: MarkAdmin leaves p_start_date alone.
MarkAdminKeepsStart ==
  [p_status |-> STATUS_IDLE, p_admin_request |-> TRUE]

\* Job.MarkAdmin
MarkAdminValues ==
  [p_status |-> STATUS_IDLE, p_start_date |-> NULL, p_admin_request |-> TRUE]

\* Job.MarkActive
MarkActiveValues(t) ==
  [p_status |-> STATUS_ACTIVE, p_start_date |-> t]

SoftfailSuffix == " [softfail threshold reached]"

\* Faulty variants: the promotion one failure late, and no promotion.
PromotedPastThreshold(count) == count > config.job_softfail_threshold
NeverPromoted(count) == FALSE

\* Job.Update, the softfail branch: the incremented count, the promoted
\* status and message.
SoftfailPromoted(count) == count >= config.job_softfail_threshold

SoftfailValues(count, message, t) ==
  [p_status |->
     IF SoftfailPromoted(count) THEN STATUS_HARDFAIL ELSE STATUS_SOFTFAIL,
   p_notbefore_date |-> t + config.job_softfail_delay,
   r_softfail_date |-> t,
   r_softfail_count |-> count,
   r_result |->
     IF SoftfailPromoted(count) THEN message \o SoftfailSuffix ELSE message]

\* Faulty variant: a final status gives the row back to the daemon.
FinalValuesUnpark(status, message, t) ==
  [p_status |-> status, p_end_date |-> t, r_result |-> message,
   p_admin_request |-> FALSE]

\* Job.Update, the success / hardfail branch.
FinalValues(status, message, t) ==
  [p_status |-> status, p_end_date |-> t, r_result |-> message]

\* dict.update on the values dictionary.
Merge(v, f) ==
  [c \in DOMAIN v \cup DOMAIN f |-> IF c \in DOMAIN f THEN f[c] ELSE v[c]]

\* Job.Update after the softfail branch: values holds what that branch set,
\* status and message what it left in the local variables.
UpdateTail(data, values, status, message, t) ==
  IF status \in {STATUS_SUCCESS, STATUS_HARDFAIL}
  THEN [raised |-> FALSE,
        data |-> DataUpdate(data, Merge(values, FinalValues(status, message, t))),
        values |-> Merge(values, FinalValues(status, message, t))]
  ELSE IF DOMAIN values = {}
  THEN [raised |-> TRUE, data |-> data, values |-> values]
  ELSE [raised |-> FALSE, data |-> DataUpdate(data, values), values |-> values]

UpdateSoftfail(data, values, t) ==
  UpdateTail(data, values, values.p_status, values.r_result, t)

\* Faulty variant: idle and active are written as the final statuses are.
UpdateAcceptsAny(data, status, message, t) ==
  IF status = STATUS_SOFTFAIL
  THEN UpdateSoftfail(
         [data EXCEPT !.r_softfail_count = data.r_softfail_count + 1],
         SoftfailValues(data.r_softfail_count + 1, message, t), t)
  ELSE [raised |-> FALSE,
        data |-> DataUpdate(data, FinalValues(status, message, t)),
        values |-> FinalValues(status, message, t)]

\* Job.Update(status, message): [raised, data, values].  raised is the
\* JobActionError of the idle / active / unknown statuses; values is the
\* dictionary handed to SQL.Update.
JobUpdate(data, status, message, t) ==
  IF status \in {STATUS_IDLE, STATUS_ACTIVE}
  THEN [raised |-> TRUE, data |-> data, values |-> <<>>]
  ELSE IF status = STATUS_SOFTFAIL
  THEN UpdateSoftfail(
         [data EXCEPT !.r_softfail_count = data.r_softfail_count + 1],
         SoftfailValues(data.r_softfail_count + 1, message, t), t)
  ELSE UpdateTail(data, <<>>, status, message, t)

\* Job.HasSideEffects: PROP__SIDE_EFFECTS is True in ProvisioningJob and
\* False in UserSynchronizeJob only.
HasSideEffects(j_type) == j_type # "u_sync"

-----------------------------------------------------------------------------
(* The handlers (provisioning.py) as seen by the scheduler. *)

\* What one call of Run can do, by job type and privileged mode
\* (gappsd.admin-only-jobs):
\*   success   - the handler ends with self.Update(STATUS_SUCCESS)
\*   admin     - the handler calls self.MarkAdmin() and returns
\*   transient - a TransientError (api.HandleError, SQLTransientError)
\*   permanent - a PermanentError
\*   other     - an exception that is neither (UserSynchronizeJob:
\*               the TypeError of SynchronizeGoogleToSQL's message)
\*   enqueue   - the handler inserts a u_sync row with CreateQueueJob, then
\*               ends with self.Update(STATUS_SUCCESS) (AccountsJob)
\* and, for a subclass of Job other than the registered ones (the contract
\* of Job.Run as Queue._ProcessJob documents it):
\*   silent    - the handler returns without touching its row
\*   softfail  - the handler calls self.Update(STATUS_SOFTFAIL, ...) and returns
\*   hardfail  - the handler calls self.Update(STATUS_HARDFAIL, ...) and returns
HandlerOutcomes(j_type, privileged) ==
  CASE j_type = "u_delete" ->
         IF ~privileged THEN {"admin"}
         ELSE {"success", "transient", "permanent"}
    [] j_type = "u_sync" -> {"success", "transient", "permanent", "other"}
    [] j_type = "n_resync" -> {"success", "transient", "permanent"}
    [] j_type = "r_activity" ->
         {"success", "transient", "credential", "permanent"}
    [] j_type = "r_accounts" ->
         {"success", "enqueue", "transient", "credential", "permanent"}
    [] OTHER -> {}

\* Everything a subclass of Job can do in Run.
JobOutcomes ==
  {"success", "admin", "silent", "softfail", "hardfail", "transient",
   "permanent", "other"}

ErrorMessage(outcome) ==
  CASE outcome = "transient" -> "net"
    [] outcome = "credential" -> "auth"
    [] outcome = "permanent" -> "denied"
    [] OTHER -> ""

ExceptionOf(outcome) ==
  CASE outcome = "transient" -> "TransientError"
    [] outcome = "credential" -> "CredentialError"
    [] outcome = "permanent" -> "PermanentError"
    [] outcome = "other" -> "Exception"
    [] OTHER -> "none"

\* One step of the scheduler on a job: the table, the job object, the calls
\* made on the job (history), the error appended to the transient window and
\* the exception that leaves the step.
Step(rws, data, calls, transient, raised) ==
  [rows |-> rws, data |-> data, calls |-> calls, transient |-> transient,
   raised |-> raised]

UpdateCall(status, message) ==
  [call |-> "Update", status |-> status, message |-> message]

\* The SQL write that ends Job.Update, and the Step it leaves.
UpdateStep(u, rws, q, calls, transient) ==
  IF u.raised
  THEN Step(rws, u.data, calls, transient, "JobActionError")
  ELSE Step(SqlUpdate(rws, u.values, q), u.data, calls, transient, "none")

\* job.Update(status, message), as one Step.
ApplyUpdate(rws, data, calls, transient, status, message, t) ==
  UpdateStep(JobUpdate(data, status, message, t), rws, data.q_id,
             Append(calls, UpdateCall(status, message)), transient)

\* The call of <Handler>.Run in the history, with what the handler did and
\* the exception it ended by.
RunCall(outcome) ==
  [call |-> "Run", did |-> outcome, raised |-> ExceptionOf(outcome)]

\* <Handler>.Run
Run(rws, data, outcome, t) ==
  CASE outcome = "success" ->
         ApplyUpdate(rws, data, <<RunCall(outcome)>>, "none",
                     STATUS_SUCCESS, "", t)
    [] outcome = "enqueue" ->
         ApplyUpdate(CreateQueueJob(rws, "u_sync", "normal", t, t), data,
                     <<RunCall(outcome)>>, "none", STATUS_SUCCESS, "", t)
    [] outcome = "admin" ->
         Step(SqlUpdate(rws, MarkAdminValues, data.q_id),
              DataUpdate(data, MarkAdminValues),
              <<RunCall(outcome), [call |-> "MarkAdmin"]>>, "none", "none")
    [] outcome = "silent" ->
         Step(rws, data, <<RunCall(outcome)>>, "none", "none")
    [] outcome = "softfail" ->
         ApplyUpdate(rws, data, <<RunCall(outcome)>>, "none",
                     STATUS_SOFTFAIL, "again", t)
    [] outcome = "hardfail" ->
         ApplyUpdate(rws, data, <<RunCall(outcome)>>, "none",
                     STATUS_HARDFAIL, "bad", t)
    [] OTHER ->
         Step(rws, data, <<RunCall(outcome)>>, "none", ExceptionOf(outcome))

ReadOnlyMessage == "GAppsd in read-only mode."

\* Faulty variant: no read-only gate.
GateOpen(data) == FALSE

\* The read-only gate of Queue._ProcessJob.
ReadOnlyGate(data) == config.read_only /\ HasSideEffects(data.j_type)

\* Faulty variant: the errors of Run are not caught.
ErrorsNotCaught(r, old_count, outcome, t) ==
  IF /\ r.raised = "none"
     /\ r.data.p_status \notin {STATUS_SUCCESS, STATUS_HARDFAIL, STATUS_IDLE}
     /\ r.data.r_softfail_count = old_count
  THEN ApplyUpdate(r.rows, r.data, r.calls, "none", STATUS_SUCCESS, "", t)
  ELSE r

\* Faulty variant: success is written whenever Run returns.
AlwaysSuccess(r, old_count, outcome, t) ==
  IF r.raised = "none"
  THEN ApplyUpdate(r.rows, r.data, r.calls, "none", STATUS_SUCCESS, "", t)
  ELSE r

\* Faulty variant: nothing is written when Run returns.
NoImplicitSuccess(r, old_count, outcome, t) ==
  CASE r.raised = "none" -> r
    [] r.raised \in {"TransientError", "CredentialError"} ->
         ApplyUpdate(r.rows, r.data, r.calls, r.raised,
                     STATUS_SOFTFAIL, ErrorMessage(outcome), t)
    [] r.raised = "PermanentError" ->
         ApplyUpdate(r.rows, r.data, r.calls, "none",
                     STATUS_HARDFAIL, ErrorMessage(outcome), t)
    [] OTHER -> r

\* Queue._ProcessJob after j.Run(): r is what Run left, old_count the
\* softfail count of old_status.
AfterRun(r, old_count, outcome, t) ==
  CASE r.raised = "none" ->
         IF /\ r.data.p_status \notin
                 {STATUS_SUCCESS, STATUS_HARDFAIL, STATUS_IDLE}
            /\ r.data.r_softfail_count = old_count
         THEN ApplyUpdate(r.rows, r.data, r.calls, "none",
                          STATUS_SUCCESS, "", t)
         ELSE r
    [] r.raised \in {"TransientError", "CredentialError"} ->
         ApplyUpdate(r.rows, r.data, r.calls, r.raised,
                     STATUS_SOFTFAIL, ErrorMessage(outcome), t)
    [] r.raised = "PermanentError" ->
         ApplyUpdate(r.rows, r.data, r.calls, "none",
                     STATUS_HARDFAIL, ErrorMessage(outcome), t)
    [] OTHER -> r

\* Queue._ProcessJob(j)
_ProcessJob(rws, data, outcome, t) ==
  IF ReadOnlyGate(data)
  THEN ApplyUpdate(rws, data, <<>>, "none", STATUS_HARDFAIL, ReadOnlyMessage, t)
  ELSE AfterRun(Run(rws, data, outcome, t), data.r_softfail_count, outcome, t)

\* Faulty variant: the error is not recorded.
ErrorNotRecorded(errors, exc_type, t) == errors

\* Queue._AddTransientError
_AddTransientError(errors, exc_type, t) ==
  IF exc_type = "none" THEN errors
  ELSE Append(errors, [date |-> t, exc_type |-> exc_type])

-----------------------------------------------------------------------------
(* The queue manager (queue.py). *)

\* Queue.__init__: self._delays
NormalDelay(queue) ==
  CASE queue = "immediate" -> config.queue_min_delay
    [] queue = "normal" -> config.queue_delay_normal
    [] queue = "offline" -> config.queue_delay_offline

\* Queue._GetJobCounts
_GetJobCounts(rws, t) ==
  [queue \in Priorities |->
     Cardinality({q \in DOMAIN rws :
        _ACTIVE_JOBS_WHERE_CLAUSE(rws[q], t) /\ rws[q].p_priority = queue})]

\* Faulty variant: the shrunken delay is not held above the minimal delay.
CurrentQueueDelayNoFloor(job_count, normal_delay) ==
  IF job_count * normal_delay > _MAX_QUEUE_DELAY
  THEN _MAX_QUEUE_DELAY \div job_count
  ELSE normal_delay

\* Queue._GetCurrentQueueDelays, one class.
CurrentQueueDelay(job_count, normal_delay) ==
  IF job_count * normal_delay > _MAX_QUEUE_DELAY
  THEN Max2(_MAX_QUEUE_DELAY \div job_count, config.queue_min_delay)
  ELSE normal_delay

_GetCurrentQueueDelays(counts) ==
  [queue \in Priorities |-> CurrentQueueDelay(counts[queue], NormalDelay(queue))]

_OVERFLOW_WARNING_DELAY == 3600

\* Faulty variant: a warning is possible whatever the date of the last one.
_CanAlwaysWarn(last_warning, t) == TRUE

\* Queue._CanWarnForQueueOverflow, on the date of the last warning of the
\* class.
_CanWarnForQueueOverflow(last_warning, t) ==
  \/ last_warning = NULL
  \/ last_warning + _OVERFLOW_WARNING_DELAY < t

\* Queue._WarnForQueueOverflow: the date of the last warning of the class
\* once it has returned (t when it has logged the warning).
_WarnForQueueOverflow(last_warning, t) ==
  IF config.queue_warn_overflow /\ _CanWarnForQueueOverflow(last_warning, t)
  THEN t
  ELSE last_warning

\* Queue._GetCurrentQueueDelays, the warnings: Queue._last_overflow_warning
\* once it has returned.
OverflowWarnings(warnings, counts, t) ==
  [queue \in Priorities |->
     IF _GetCurrentQueueDelays(counts)[queue] * counts[queue]
          > _MAX_QUEUE_DELAY
     THEN _WarnForQueueOverflow(warnings[queue], t)
     ELSE warnings[queue]]

\* Faulty variant: every class can always be processed.
AlwaysCanProcess(last_job, queue_delay, t) == TRUE

\* Queue._CanProcessFromQueue
_CanProcessFromQueue(last_job, queue_delay, t) ==
  \/ last_job = NULL
  \/ last_job + queue_delay <= t

\* Queue._GetNextPriorityQueue: the classes, from position i on, that the
\* generator can yield now.
Yieldable(i) ==
  {k \in i..3 :
     /\ job_counts[_PRIORITY_ORDER[k]] > 0
     /\ _CanProcessFromQueue(last_jobs[_PRIORITY_ORDER[k]],
                             delays[_PRIORITY_ORDER[k]], now)}

NextYield(i) == Min(Yieldable(i))

\* Queue._GetJobFromQueue: the SELECT ... ORDER BY q_id LIMIT 1 (0: no row).
Eligible(rws, queue, t) ==
  {q \in DOMAIN rws :
     _ACTIVE_JOBS_WHERE_CLAUSE(rws[q], t) /\ rws[q].p_priority = queue}

\* Faulty variant: ORDER BY q_id DESC.
SelectLargest(rws, queue, t) ==
  IF Eligible(rws, queue, t) = {} THEN 0
  ELSE CHOOSE x \in Eligible(rws, queue, t) :
         \A y \in Eligible(rws, queue, t) : x >= y

SelectJob(rws, queue, t) ==
  IF Eligible(rws, queue, t) = {} THEN 0 ELSE Min(Eligible(rws, queue, t))

\* simplejson.loads(j_parameters) in Job.__init__, on the two texts a row of
\* the model holds: "{}" is an object, the empty text raises ValueError.
ValidJson(j_parameters) == j_parameters # ""

\* job_registry.Instantiate(j_type, config, sql, row): the JobError it
\* raises, or "none" when it returns a job object.
InstantiateRaises(r) ==
  IF r.j_type \notin Registered THEN "JobTypeError"
  ELSE IF ~ValidJson(r.j_parameters) THEN "JobContentError"
  ELSE "none"

\* The message MarkFailed is given for the JobError of the row.
InstantiationError(r) ==
  IF InstantiateRaises(r) = "JobTypeError"
  THEN "Job instantiation error: Job '" \o r.j_type \o "' is undefined."
  ELSE "Job instantiation error: Invalid value of JSON field 'j_parameters' "
         \o "(No JSON object could be decoded)."

\* Faulty variant: no entry of the window expires.
NeverExpires(errors, validity_date) == errors

\* Queue._CheckTransientErrors: the window without its expired head.
RECURSIVE DropExpired(_, _)
DropExpired(errors, validity_date) ==
  IF errors # <<>> /\ Head(errors).date < validity_date
  THEN DropExpired(Tail(errors), validity_date)
  ELSE errors

CountOf(errors, kinds) ==
  Cardinality({i \in DOMAIN errors : errors[i].exc_type \in kinds})

\* The exception _CheckTransientErrors raises on the window, or "none".
CheckRaises(errors) ==
  IF CountOf(errors, {"CredentialError"}) >= _CREDENTIAL_ERRORS_THRESHOLD
  THEN "CredentialError"
  ELSE IF CountOf(errors, {"TransientError", "SQLTransientError"})
            >= _TRANSIENT_ERRORS_THRESHOLD
       THEN "TransientError"
       ELSE "none"

-----------------------------------------------------------------------------
(* Initial state: the rows the front end has inserted (CreateQueueJob with   *)
(* its default dates), a queue manager entering Queue.Run, no admin console *)
(* running.                                                                 *)

RECURSIVE Tables(_)
Tables(n) ==
  IF n = 0 THEN {<<>>}
  ELSE {CreateQueueJob(t, j_type, p_priority, 0, 0) :
          t \in Tables(n - 1), j_type \in JobTypes, p_priority \in Priorities}

Init ==
  /\ now = 0
  /\ config \in Configs
  /\ rows \in Tables(MaxJobs)
  /\ qpc = "check"
  /\ job_counts = [queue \in Priorities |-> 0]
  /\ delays = [queue \in Priorities |-> 0]
  /\ qi = 1
  /\ last_jobs = [queue \in Priorities |-> NULL]
  /\ last_overflow_warning = [queue \in Priorities |-> NULL]
  /\ transient_errors = <<>>
  /\ qjob = NoJob
  /\ qexc = "none"
  /\ served = <<>>
  /\ cpc = "off"
  /\ cjobs = NoJob
  /\ dpc = "run"
  /\ d_transient_errors = <<>>
  /\ deadline = now + config.max_run_time
  /\ sql_left = 0
  /\ google_nicknames = NoNicknames
  /\ gapps_nicknames = NoNicknames
  /\ last = NoOp

-----------------------------------------------------------------------------
(* The environment: the clock. *)

\* Time passes while a handler runs, while the operator reads the prompt, or
\* once the queue manager has ended; the other steps of the queue manager
\* take no time, and its sleep is QSleep.
Tick ==
  /\ \/ qpc = "process" /\ now - rows[qjob.q_id].p_start_date < MaxRunTime
     \/ qpc = "raised"
  /\ \E d \in ClockSteps : now + d <= MaxTime /\ now' = now + d
  /\ last' = NoOp
  /\ UNCHANGED <<config, nickVars, rows, queueVars, cliVars, daemonVars>>

-----------------------------------------------------------------------------
(* Queue.Run, one action per method called from the loop. *)

\* Queue._CheckTransientErrors at the top of the loop.
QCheckTransientErrors ==
  /\ qpc = "check"
  /\ LET kept == DropExpired(transient_errors, now - _TRANSIENT_ERRORS_VALIDITY)
         exc == CheckRaises(kept)
     IN  /\ transient_errors' = kept
         /\ qexc' = exc
         /\ qpc' = IF exc = "none" THEN "poll" ELSE "raised"
  /\ last' = NoOp
  /\ UNCHANGED <<now, config, nickVars, rows, job_counts, delays, qi,
                 last_jobs, last_overflow_warning, qjob, served, cliVars,
                 daemonVars>>

\* Queue._ProcessNextJob up to the creation of the generator:
\* _GetJobCounts and _GetCurrentQueueDelays, with its overflow warnings.
QProcessNextJob ==
  /\ qpc = "poll"
  /\ job_counts' = _GetJobCounts(rows, now)
  /\ delays' = _GetCurrentQueueDelays(job_counts')
  /\ last_overflow_warning' =
       OverflowWarnings(last_overflow_warning, job_counts', now)
  /\ qi' = 1
  /\ served' = <<>>
  /\ qpc' = "next"
  /\ last' = NoOp
  /\ UNCHANGED <<now, config, nickVars, rows, last_jobs, transient_errors,
                 qjob, qexc, cliVars, daemonVars>>

\* Queue._GetNextPriorityQueue yields a class.
QGetNextPriorityQueue ==
  /\ qpc = "next"
  /\ Yieldable(qi) # {}
  /\ LET k == NextYield(qi)
         queue == _PRIORITY_ORDER[k]
     IN  /\ qi' = k
         /\ last_jobs' = [last_jobs EXCEPT ![queue] = now]
         /\ served' = Append(served, queue)
         /\ last' = [op |-> "yield", queue |-> queue,
                     last_job |-> last_jobs[queue], delay |-> delays[queue],
                     job_count |-> job_counts[queue]]
  /\ qpc' = "fetch"
  /\ UNCHANGED <<now, config, nickVars, rows, job_counts, delays,
                 last_overflow_warning, transient_errors, qjob, qexc, cliVars,
                 daemonVars>>

\* Queue._GetNextPriorityQueue is exhausted: _ProcessNextJob returns, and
\* Queue.Run closes the SQL connection and sleeps.
QSleep ==
  /\ qpc = "next"
  /\ Yieldable(qi) = {}
  /\ now + config.queue_min_delay <= MaxTime
  /\ now' = now + config.queue_min_delay
  /\ qpc' = "check"
  /\ last' = NoOp
  /\ UNCHANGED <<config, nickVars, rows, job_counts, delays, qi, last_jobs,
                 last_overflow_warning, transient_errors, qjob, qexc, served,
                 cliVars, daemonVars>>

\* Queue._GetJobFromQueue(queue)
QGetJobFromQueue ==
  /\ qpc = "fetch"
  /\ LET queue == _PRIORITY_ORDER[qi]
         q == SelectJob(rows, queue, now)
     IN  IF q = 0
         THEN /\ qjob' = NoJob
              /\ qpc' = "next"
              /\ rows' = rows
              /\ last' = [op |-> "select", drv |-> "queue", q |-> 0]
         ELSE IF InstantiateRaises(rows[q]) # "none"
         THEN /\ qjob' = NoJob
              /\ qpc' = "next"
              /\ rows' = SqlUpdate(rows,
                   MarkFailedValues(InstantiationError(rows[q]), now), q)
              /\ last' = [op |-> "markfailed", drv |-> "queue", q |-> q,
                          pre |-> rows[q]]
         ELSE /\ qjob' = DataUpdate(JobData(rows, q), MarkActiveValues(now))
              /\ qpc' = "process"
              /\ rows' = SqlUpdate(rows, MarkActiveValues(now), q)
              /\ last' = [op |-> "select", drv |-> "queue", q |-> q,
                          pre |-> rows[q]]
  /\ UNCHANGED <<now, config, nickVars, job_counts, delays, qi, last_jobs,
                 last_overflow_warning, transient_errors, qexc, served,
                 cliVars, daemonVars>>

\* Queue._ProcessJob(job) as called by _ProcessNextJob: s is its Step.
QProcessed(s) ==
  /\ rows' = s.rows
  /\ transient_errors' = _AddTransientError(transient_errors, s.transient, now)
  /\ qexc' = s.raised
  /\ qpc' = IF s.raised = "none" THEN "next" ELSE "raised"
  /\ last' = [op |-> "process", drv |-> "queue", q |-> qjob.q_id,
              pre |-> rows[qjob.q_id], calls |-> s.calls,
              errors |-> Len(transient_errors)]

QProcessJob ==
  /\ qpc = "process"
  /\ \E outcome \in HandlerOutcomes(qjob.j_type, config.admin_only_jobs) :
       QProcessed(_ProcessJob(rows, qjob, outcome, now))
  /\ qjob' = NoJob
  /\ UNCHANGED <<now, config, nickVars, job_counts, delays, qi, last_jobs,
                 last_overflow_warning, served, cliVars, daemonVars>>

\* Daemon.Run builds a new Queue after the exception that ended Queue.Run
\* (or gappsd is started again after a backup mode); the restart delay and
\* the down time are within one clock step, more is Tick.
QRestart ==
  /\ qpc = "raised"
  /\ \E d \in ClockSteps : now + d <= MaxTime /\ now' = now + d
  /\ qpc' = "check"
  /\ qexc' = "none"
  /\ last_jobs' = [queue \in Priorities |-> NULL]
  /\ last_overflow_warning' = [queue \in Priorities |-> NULL]
  /\ transient_errors' = <<>>
  /\ last' = NoOp
  /\ UNCHANGED <<config, nickVars, rows, job_counts, delays, qi, qjob, served,
                 cliVars, daemonVars>>

-----------------------------------------------------------------------------
(* Cli.Run (cli.py). *)

\* CliQueue.Update: the SELECT ... ORDER BY q_id LIMIT 1 (0: no row).
SelectAdminJob(rws, t) ==
  LET S == {q \in DOMAIN rws : _ACTIVE_JOBS_WHERE_CLAUSE_ADMIN(rws[q], t)}
  IN  IF S = {} THEN 0 ELSE Min(S)

\* The top of the loop of Cli.Run, entered when an operator starts gapps-cli
\* (Cli.__init__ forces gappsd.admin-only-jobs) or from the bottom of the
\* loop: CliQueue.Update, then ListJobs and the test that ends the loop.
CliUpdate ==
  /\ cpc \in {"off", "update"}
  /\ LET q == SelectAdminJob(rows, now)
     IN  IF q = 0
         THEN /\ cjobs' = NoJob
              /\ cpc' = "off"
              /\ UNCHANGED <<rows, last>>
         ELSE IF InstantiateRaises(rows[q]) # "none"
         THEN /\ cjobs' = NoJob
              /\ cpc' = "off"
              /\ rows' = SqlUpdate(rows,
                   MarkFailedValues(InstantiationError(rows[q]), now), q)
              /\ last' = [op |-> "markfailed", drv |-> "cli", q |-> q,
                          pre |-> rows[q]]
         ELSE /\ cjobs' = JobData(rows, q)
              /\ cpc' = "ask"
              /\ UNCHANGED <<rows, last>>
  /\ UNCHANGED <<now, config, nickVars, queueVars, daemonVars>>

\* Faulty variant: a job the operator leaves is marked as failed.
CliQuitMarksFailed ==
  /\ cpc = "ask"
  /\ cpc' = "off"
  /\ cjobs' = NoJob
  /\ rows' = SqlUpdate(rows, MarkFailedValues("Aborting ...", now),
                       cjobs.q_id)
  /\ UNCHANGED <<now, config, nickVars, queueVars, daemonVars, last>>

\* The operator gives no job number: the loop ends.
CliQuit ==
  /\ cpc = "ask"
  /\ cpc' = "off"
  /\ cjobs' = NoJob
  /\ UNCHANGED <<now, config, nickVars, rows, queueVars, daemonVars, last>>

\* The operator gives an unknown number or does not confirm: continue.
CliAbort ==
  /\ cpc = "ask"
  /\ cpc' = "update"
  /\ UNCHANGED <<now, config, nickVars, rows, queueVars, daemonVars, cjobs,
                 last>>

\* The operator confirms: CliQueue.ProcessJob, in privileged mode; an
\* exception ends the program.  s is the Step of Queue._ProcessJob.
CliProcessed(s) ==
  /\ rows' = s.rows
  /\ cjobs' = s.data
  /\ cpc' = IF s.raised = "none" THEN "update" ELSE "off"
  /\ last' = [op |-> "process", drv |-> "cli", q |-> cjobs.q_id,
              pre |-> rows[cjobs.q_id], calls |-> s.calls, errors |-> 0]

CliProcessJob ==
  /\ cpc = "ask"
  /\ \E outcome \in HandlerOutcomes(cjobs.j_type, TRUE) :
       CliProcessed(_ProcessJob(rows, cjobs, outcome, now))
  /\ UNCHANGED <<now, config, nickVars, queueVars, daemonVars>>

-----------------------------------------------------------------------------

Next ==
  \/ Tick
  \/ QCheckTransientErrors
  \/ QProcessNextJob
  \/ QGetNextPriorityQueue
  \/ QSleep
  \/ QGetJobFromQueue
  \/ QProcessJob
  \/ QRestart
  \/ CliUpdate
  \/ CliQuit
  \/ CliAbort
  \/ CliProcessJob

Spec == Init /\ [][Next]_vars

-----------------------------------------------------------------------------
(* Queue._ProcessJob on one job with an arbitrary handler: the job has been  *)
(* selected and marked active at time 0, with any softfail count below the   *)
(* threshold; the handler does any of the things a subclass of Job can do.   *)

ActiveRow(j_type, p_priority, count) ==
  [NewRow(j_type, p_priority, 0, 0) EXCEPT
     !.p_status = STATUS_ACTIVE, !.p_start_date = 0,
     !.r_softfail_count = count,
     !.r_softfail_date = IF count = 0 THEN NULL ELSE 0,
     !.r_result = IF count = 0 THEN "" ELSE "again"]

InitJob ==
  /\ now = 0
  /\ config \in Configs
  /\ \E p_priority \in Priorities, count \in 0..(JobSoftfailThreshold - 1) :
       rows = <<ActiveRow("job", p_priority, count)>>
  /\ qpc = "process"
  /\ job_counts = [queue \in Priorities |-> 0]
  /\ delays = [queue \in Priorities |-> 0]
  /\ qi = 1
  /\ last_jobs = [queue \in Priorities |-> NULL]
  /\ last_overflow_warning = [queue \in Priorities |-> NULL]
  /\ transient_errors = <<>>
  /\ qjob = JobData(rows, 1)
  /\ qexc = "none"
  /\ served = <<>>
  /\ cpc = "off"
  /\ cjobs = NoJob
  /\ dpc = "run"
  /\ d_transient_errors = <<>>
  /\ deadline = now + config.max_run_time
  /\ sql_left = 0
  /\ google_nicknames = NoNicknames
  /\ gapps_nicknames = NoNicknames
  /\ last = NoOp

\* The handler runs for some time.
JobTick ==
  /\ qpc = "process"
  /\ \E d \in ClockSteps : now + d <= MaxTime /\ now' = now + d
  /\ UNCHANGED <<config, nickVars, rows, queueVars, cliVars, daemonVars,
                 last>>

\* Queue._ProcessJob(job)
JobProcess ==
  /\ qpc = "process"
  /\ \E outcome \in JobOutcomes :
       QProcessed(_ProcessJob(rows, qjob, outcome, now))
  /\ qjob' = NoJob
  /\ UNCHANGED <<now, config, nickVars, job_counts, delays, qi, last_jobs,
                 last_overflow_warning, served, cliVars, daemonVars>>

NextJob == JobTick \/ JobProcess

SpecJob == InitJob /\ [][NextJob]_vars

-----------------------------------------------------------------------------
(* The account jobs with security checks (provisioning.py) under             *)
(* Queue._ProcessJob: a user-delete or user-update job has been selected    *)
(* and marked active at time 0; its parameters, the user the directory      *)
(* holds and the results of the two API calls are the inputs.               *)

\* The keys of j_parameters that UserUpdateJob.Run reads (username apart).
UpdateFields == {"admin", "first_name", "last_name", "password", "suspended"}

\* What the directory holds for the username: nothing, a user, an
\* administrator (user['isAdmin']).
Users == {"missing", "user", "admin"}

\* The result of an API call: it returns, or api.HandleError raises.
ApiResults == {"ok", "transient", "permanent"}

\* What a handler did: its outcome and the API calls it made.
Handled(outcome, remote) == [outcome |-> outcome, remote |-> remote]

\* Faulty variant: the deletion is not reserved to the privileged mode.
DeleteUnchecked(user, retrieved, deleted, privileged) ==
  IF retrieved # "ok" THEN Handled(retrieved, <<"RetrieveUser">>)
  ELSE IF user # "user" THEN Handled("permanent", <<"RetrieveUser">>)
  ELSE IF deleted # "ok"
  THEN Handled(deleted, <<"RetrieveUser", "DeleteUser">>)
  ELSE Handled("success", <<"RetrieveUser", "DeleteUser">>)

\* UserDeleteJob.Run
UserDeleteRun(user, retrieved, deleted, privileged) ==
  IF ~privileged THEN Handled("admin", <<>>)
  ELSE IF retrieved # "ok" THEN Handled(retrieved, <<"RetrieveUser">>)
  ELSE IF user # "user" THEN Handled("permanent", <<"RetrieveUser">>)
  ELSE IF deleted # "ok"
  THEN Handled(deleted, <<"RetrieveUser", "DeleteUser">>)
  ELSE Handled("success", <<"RetrieveUser", "DeleteUser">>)

\* Faulty variant: only the admin key is reserved to the privileged mode.
RefusedAdminKeyOnly(parameters, user) == "admin" \in parameters

\* UserUpdateJob.Run: the test made in non-privileged mode.
Refused(parameters, user) ==
  \/ "admin" \in parameters
  \/ user = "admin" /\ parameters \cap {"suspended", "password"} # {}

\* UserUpdateJob.Run
UserUpdateRun(parameters, user, retrieved, updated, privileged) ==
  IF retrieved # "ok" THEN Handled(retrieved, <<"RetrieveUser">>)
  ELSE IF user = "missing" THEN Handled("permanent", <<"RetrieveUser">>)
  ELSE IF ~privileged /\ Refused(parameters, user)
  THEN Handled("admin", <<"RetrieveUser">>)
  ELSE IF updated # "ok"
  THEN Handled(updated, <<"RetrieveUser", "UpdateUser">>)
  ELSE Handled("success", <<"RetrieveUser", "UpdateUser">>)

InitProvisioning ==
  /\ now = 0
  /\ config \in Configs
  /\ \E j_type \in {"u_delete", "u_update"}, p_priority \in Priorities,
        count \in 0..(JobSoftfailThreshold - 1) :
       rows = <<ActiveRow(j_type, p_priority, count)>>
  /\ qpc = "process"
  /\ job_counts = [queue \in Priorities |-> 0]
  /\ delays = [queue \in Priorities |-> 0]
  /\ qi = 1
  /\ last_jobs = [queue \in Priorities |-> NULL]
  /\ last_overflow_warning = [queue \in Priorities |-> NULL]
  /\ transient_errors = <<>>
  /\ qjob = JobData(rows, 1)
  /\ qexc = "none"
  /\ served = <<>>
  /\ cpc = "off"
  /\ cjobs = NoJob
  /\ dpc = "run"
  /\ d_transient_errors = <<>>
  /\ deadline = now + config.max_run_time
  /\ sql_left = 0
  /\ google_nicknames = NoNicknames
  /\ gapps_nicknames = NoNicknames
  /\ last = NoOp

\* Queue._ProcessJob(job): h is what the handler does when it is run, s the
\* Step of _ProcessJob.
ProvisioningProcessed(s, h, parameters, user, retrieved) ==
  /\ rows' = s.rows
  /\ transient_errors' = _AddTransientError(transient_errors, s.transient, now)
  /\ qexc' = s.raised
  /\ qpc' = IF s.raised = "none" THEN "next" ELSE "raised"
  /\ last' = [op |-> "process", drv |-> "queue", q |-> qjob.q_id,
              pre |-> rows[qjob.q_id], calls |-> s.calls,
              errors |-> Len(transient_errors),
              remote |-> IF ReadOnlyGate(qjob) THEN <<>> ELSE h.remote,
              parameters |-> parameters, user |-> user,
              retrieved |-> retrieved]

ProvisioningHandled(h, parameters, user, retrieved) ==
  ProvisioningProcessed(_ProcessJob(rows, qjob, h.outcome, now), h,
                        parameters, user, retrieved)

UserDeleteProcess ==
  /\ qpc = "process"
  /\ qjob.j_type = "u_delete"
  /\ \E user \in Users, retrieved \in ApiResults, deleted \in ApiResults :
       ProvisioningHandled(
         UserDeleteRun(user, retrieved, deleted, config.admin_only_jobs),
         {}, user, retrieved)
  /\ qjob' = NoJob
  /\ UNCHANGED <<now, config, nickVars, job_counts, delays, qi, last_jobs,
                 last_overflow_warning, served, cliVars, daemonVars>>

UserUpdateProcess ==
  /\ qpc = "process"
  /\ qjob.j_type = "u_update"
  /\ \E parameters \in SUBSET UpdateFields, user \in Users,
        retrieved \in ApiResults, updated \in ApiResults :
       ProvisioningHandled(
         UserUpdateRun(parameters, user, retrieved, updated,
                       config.admin_only_jobs),
         parameters, user, retrieved)
  /\ qjob' = NoJob
  /\ UNCHANGED <<now, config, nickVars, job_counts, delays, qi, last_jobs,
                 last_overflow_warning, served, cliVars, daemonVars>>

NextProvisioning == JobTick \/ UserDeleteProcess \/ UserUpdateProcess

SpecProvisioning == InitProvisioning /\ [][NextProvisioning]_vars

-----------------------------------------------------------------------------
(* Daemon.Run (daemon.py): the supervisor, the queue manager it runs and the *)
(* SQL server, without the admin console.  The daemon is configured with    *)
(* long delays, so that the one-hour windows and the run-time deadline are  *)
(* crossed within a few poll cycles.  Two specifications share the actions: *)
(* SpecDaemon follows the queue manager on up to MaxDaemonJobs jobs with an *)
(* SQL server that fails at most MaxDaemonSqlErrors times; SpecSupervisor   *)
(* follows the supervisor through up to MaxSqlErrors failures of the SQL    *)
(* server, on up to MaxSupervisorJobs jobs; SpecDeadline follows the daemon  *)
(* to its deadline, under fairness, on up to MaxSupervisorJobs jobs with up  *)
(* to MaxDaemonSqlErrors failures.                                           *)

MaxDaemonJobs == 2
MaxDaemonSqlErrors == 1
MaxSupervisorJobs == 1
MaxSqlErrors == 4
MaxDaemonTime == 11000
MaxHandlerTime == 1800

_BACKUP_EMAIL_INTERVAL == 3600
_TRANSIENT_ERROR_RESTART_DELAY == 20
_SAFETY_RESTART_DELAY == 10
Daemon_TRANSIENT_ERRORS_VALIDITY == 3600
Daemon_TRANSIENT_ERRORS_THRESHOLD == 4

DaemonConfigs ==
  [read_only : {FALSE}, admin_only_jobs : {FALSE},
   queue_min_delay : {1800}, queue_delay_normal : {1800},
   queue_delay_offline : {3600}, queue_warn_overflow : {TRUE},
   job_softfail_delay : {1800},
   job_softfail_threshold : {JobSoftfailThreshold}, max_run_time : {3700}]

\* The rows the front end has inserted: statistics jobs (reporting.py).
RECURSIVE DaemonTables(_)
DaemonTables(n) ==
  IF n = 0 THEN {<<>>}
  ELSE {<<>>} \cup
       {CreateQueueJob(t, "r_activity", p_priority, 0, 0) :
          t \in DaemonTables(n - 1), p_priority \in Priorities}

\* Daemon.__init__, and Daemon.Run up to the first Queue.Run, on a table of
\* up to n jobs and with an SQL server that fails up to k times.
DaemonStart(n, k) ==
  /\ now = 0
  /\ config \in DaemonConfigs
  /\ rows \in DaemonTables(n)
  /\ qpc = "check"
  /\ job_counts = [queue \in Priorities |-> 0]
  /\ delays = [queue \in Priorities |-> 0]
  /\ qi = 1
  /\ last_jobs = [queue \in Priorities |-> NULL]
  /\ last_overflow_warning = [queue \in Priorities |-> NULL]
  /\ transient_errors = <<>>
  /\ qjob = NoJob
  /\ qexc = "none"
  /\ served = <<>>
  /\ cpc = "off"
  /\ cjobs = NoJob
  /\ dpc = "run"
  /\ d_transient_errors = <<>>
  /\ deadline = now + config.max_run_time
  /\ sql_left = k
  /\ google_nicknames = NoNicknames
  /\ gapps_nicknames = NoNicknames
  /\ last = NoOp

InitDaemon == DaemonStart(MaxDaemonJobs, MaxDaemonSqlErrors)

InitSupervisor == DaemonStart(MaxSupervisorJobs, MaxSqlErrors)

InitDeadline == DaemonStart(MaxSupervisorJobs, MaxDaemonSqlErrors)

\* Daemon._CheckForTransientErrors: the window without its expired head.
RECURSIVE DaemonDropExpired(_, _)
DaemonDropExpired(errors, validity_date) ==
  IF errors # <<>> /\ Head(errors).date < validity_date
  THEN DaemonDropExpired(Tail(errors), validity_date)
  ELSE errors

\* Faulty variant: expired errors are kept.
KeepExpired(errors, t) == errors

\* Daemon._CheckForTransientErrors: what it leaves in the window; it returns
\* True iff that holds the threshold.
_CheckForTransientErrors(errors, t) ==
  DaemonDropExpired(errors, t - Daemon_TRANSIENT_ERRORS_VALIDITY)

\* Faulty variant: the deadline has always passed.
AlwaysPastDeadline(t, d) == TRUE

\* Daemon.Run: datetime.datetime.now() > self._deadline
PastDeadline(t, d) == t > d

\* Time passes while a handler runs.
DHandlerTick ==
  /\ qpc = "process"
  /\ now - rows[qjob.q_id].p_start_date < MaxHandlerTime
  /\ now + MaxHandlerTime <= MaxDaemonTime
  /\ now' = now + MaxHandlerTime
  /\ last' = NoOp
  /\ UNCHANGED <<config, nickVars, rows, queueVars, cliVars, daemonVars>>

\* The loop of Queue.Run goes on while the deadline it was built with has
\* not passed.
DQCheckTransientErrors ==
  /\ ~PastDeadline(now, deadline)
  /\ QCheckTransientErrors

\* The loop of Queue.Run ends past the deadline: Queue.Run returns, and
\* Daemon.Run, past its deadline, calls _RestartDaemon.
DQDeadline ==
  /\ dpc = "run"
  /\ qpc = "check"
  /\ PastDeadline(now, deadline)
  /\ qpc' = "returned"
  /\ dpc' = "restarted"
  /\ now' = now + _SAFETY_RESTART_DELAY
  /\ last' = [op |-> "execvp"]
  /\ UNCHANGED <<config, nickVars, rows, job_counts, delays, qi, last_jobs,
                 last_overflow_warning, transient_errors, qjob, qexc, served,
                 cliVars, d_transient_errors, deadline, sql_left>>

\* Queue.Run closes the SQL connection and sleeps (QSleep, on the clock of
\* the daemon).
DQSleep ==
  /\ qpc = "next"
  /\ Yieldable(qi) = {}
  /\ now + config.queue_min_delay <= MaxDaemonTime
  /\ now' = now + config.queue_min_delay
  /\ qpc' = "check"
  /\ last' = NoOp
  /\ UNCHANGED <<config, nickVars, rows, job_counts, delays, qi, last_jobs,
                 last_overflow_warning, transient_errors, qjob, qexc, served,
                 cliVars, daemonVars>>

\* SQL.Query raises in Queue._GetJobCounts or in Queue._GetJobFromQueue
\* (the SELECT or MarkActive): nothing in Queue.Run catches it.
SqlErrors == {"SQLTransientError", "SQLPermanentError"}

QSqlError ==
  /\ qpc \in {"poll", "fetch"}
  /\ sql_left > 0
  /\ sql_left' = sql_left - 1
  /\ \E exc \in SqlErrors : qexc' = exc
  /\ qpc' = "raised"
  /\ last' = [op |-> "sqlerror", at |-> qpc]
  /\ UNCHANGED <<now, config, nickVars, rows, job_counts, delays, qi,
                 last_jobs, last_overflow_warning, transient_errors, qjob,
                 served, cliVars, dpc, d_transient_errors, deadline>>

\* What Queue._ProcessJob adds to its window when every UPDATE of the job
\* raises SQLTransientError: the error of the handler, or the SQL error of
\* the handler's own Update, then the Update of the except clause raises.
SqlDownTransient(data, outcome) ==
  CASE ReadOnlyGate(data) -> "none"
    [] outcome \in {"success", "enqueue"} -> "SQLTransientError"
    [] outcome = "transient" -> "TransientError"
    [] outcome = "credential" -> "CredentialError"
    [] OTHER -> "none"

\* Queue._ProcessJob(job) while the SQL server is down.
QProcessJobSqlDown ==
  /\ qpc = "process"
  /\ sql_left > 0
  /\ sql_left' = sql_left - 1
  /\ \E outcome \in HandlerOutcomes(qjob.j_type, config.admin_only_jobs) :
       /\ transient_errors' =
            _AddTransientError(transient_errors,
                               SqlDownTransient(qjob, outcome), now)
       /\ last' = [op |-> "sqlerror", at |-> qpc, drv |-> "queue",
                   q |-> qjob.q_id, did |-> outcome]
  /\ qexc' = "SQLTransientError"
  /\ qpc' = "raised"
  /\ qjob' = NoJob
  /\ UNCHANGED <<now, config, nickVars, rows, job_counts, delays, qi,
                 last_jobs, last_overflow_warning, served, cliVars, dpc,
                 d_transient_errors, deadline>>

\* Faulty variant: a Credential error is handled as the first Transient one.
CredentialRestartsQueue ==
  /\ dpc = "run"
  /\ qpc = "raised"
  /\ qexc = "CredentialError"
  /\ now + _TRANSIENT_ERROR_RESTART_DELAY <= MaxDaemonTime
  /\ now' = now + _TRANSIENT_ERROR_RESTART_DELAY
  /\ qpc' = "check"
  /\ qexc' = "none"
  /\ last_jobs' = [queue \in Priorities |-> NULL]
  /\ last_overflow_warning' = [queue \in Priorities |-> NULL]
  /\ transient_errors' = <<>>
  /\ last' = [op |-> "except", exc |-> qexc, raised |-> "none"]
  /\ UNCHANGED <<config, nickVars, rows, job_counts, delays, qi, qjob, served,
                 cliVars, daemonVars>>

\* Daemon.Run, except CredentialError: the argument of logger.critical adds
\* the exception to a string, and the TypeError of that leaves Daemon.Run.
DCredentialError ==
  /\ dpc = "run"
  /\ qpc = "raised"
  /\ qexc = "CredentialError"
  /\ dpc' = "crashed"
  /\ last' = [op |-> "except", exc |-> qexc, raised |-> "TypeError"]
  /\ UNCHANGED <<now, config, nickVars, rows, queueVars, cliVars,
                 d_transient_errors, deadline, sql_left>>

\* Daemon.Run, except TransientError, then the bottom of the loop: the
\* deadline test, the restart delay and a new Queue.
DTransientError ==
  /\ dpc = "run"
  /\ qpc = "raised"
  /\ qexc \in {"TransientError", "SQLTransientError"}
  /\ LET kept == _CheckForTransientErrors(
                   Append(d_transient_errors, [date |-> now, error |-> qexc]),
                   now)
     IN  /\ d_transient_errors' = kept
         /\ IF Len(kept) >= Daemon_TRANSIENT_ERRORS_THRESHOLD
            THEN /\ dpc' = "backup"
                 /\ UNCHANGED <<now, queueVars>>
            ELSE IF PastDeadline(now, deadline)
            THEN /\ dpc' = "restarted"
                 /\ now' = now + _SAFETY_RESTART_DELAY
                 /\ UNCHANGED queueVars
            ELSE /\ dpc' = "run"
                 /\ now + _TRANSIENT_ERROR_RESTART_DELAY <= MaxDaemonTime
                 /\ now' = now + _TRANSIENT_ERROR_RESTART_DELAY
                 /\ qpc' = "check"
                 /\ qexc' = "none"
                 /\ last_jobs' = [queue \in Priorities |-> NULL]
                 /\ last_overflow_warning' = [queue \in Priorities |-> NULL]
                 /\ transient_errors' = <<>>
                 /\ UNCHANGED <<job_counts, delays, qi, qjob, served>>
  /\ last' = [op |-> "except", exc |-> qexc, raised |-> "none", at |-> now,
              window |-> Append(d_transient_errors,
                                [date |-> now, error |-> qexc])]
  /\ UNCHANGED <<config, nickVars, rows, cliVars, deadline, sql_left>>

\* Faulty variant: an unknown exception ends Daemon.Run.
ExceptionEndsDaemon ==
  /\ dpc = "run"
  /\ qpc = "raised"
  /\ qexc \notin {"CredentialError", "TransientError", "SQLTransientError"}
  /\ dpc' = "crashed"
  /\ last' = [op |-> "except", exc |-> qexc, raised |-> "none"]
  /\ UNCHANGED <<now, config, nickVars, rows, queueVars, cliVars,
                 d_transient_errors, deadline, sql_left>>

\* Daemon.Run, except Exception.
DException ==
  /\ dpc = "run"
  /\ qpc = "raised"
  /\ qexc \notin {"CredentialError", "TransientError", "SQLTransientError"}
  /\ dpc' = "backup"
  /\ last' = [op |-> "except", exc |-> qexc, raised |-> "none"]
  /\ UNCHANGED <<now, config, nickVars, rows, queueVars, cliVars,
                 d_transient_errors, deadline, sql_left>>

\* Faulty variant: the backup mode ends after one reminder, and Daemon.Run
\* builds a Queue again.
BackupModeReturns ==
  /\ dpc = "backup"
  /\ now + _BACKUP_EMAIL_INTERVAL <= MaxDaemonTime
  /\ now' = now + _BACKUP_EMAIL_INTERVAL
  /\ dpc' = "run"
  /\ qpc' = "check"
  /\ qexc' = "none"
  /\ last_jobs' = [queue \in Priorities |-> NULL]
  /\ last_overflow_warning' = [queue \in Priorities |-> NULL]
  /\ transient_errors' = <<>>
  /\ last' = [op |-> "critical"]
  /\ UNCHANGED <<config, nickVars, rows, job_counts, delays, qi, qjob, served,
                 cliVars, d_transient_errors, deadline, sql_left>>

\* Daemon._RunInBackupMode, one turn of its loop.
DRunInBackupMode ==
  /\ dpc = "backup"
  /\ now + _BACKUP_EMAIL_INTERVAL <= MaxDaemonTime
  /\ now' = now + _BACKUP_EMAIL_INTERVAL
  /\ last' = [op |-> "critical"]
  /\ UNCHANGED <<config, nickVars, rows, queueVars, cliVars, daemonVars>>

NextDaemon ==
  \/ DHandlerTick
  \/ DQCheckTransientErrors
  \/ DQDeadline
  \/ QProcessNextJob
  \/ QGetNextPriorityQueue
  \/ DQSleep
  \/ QGetJobFromQueue
  \/ QProcessJob
  \/ QSqlError
  \/ QProcessJobSqlDown
  \/ DCredentialError
  \/ DTransientError
  \/ DException
  \/ DRunInBackupMode

SpecDaemon == InitDaemon /\ [][NextDaemon]_vars

SpecSupervisor == InitSupervisor /\ [][NextDaemon]_vars

\* The daemon up to its deadline.  The process keeps running: the
\* interpreter executes the next statement, a sleep ends, a handler returns
\* or raises.
SpecDeadline == InitDeadline /\ [][NextDaemon]_vars /\ WF_vars(NextDaemon)

-----------------------------------------------------------------------------
(* The job record (job.py) on its own: a job object built on a freshly      *)
(* inserted row, and the methods of the object called on it in any order,   *)
(* with any status.                                                         *)

\* The values Update is called with: the five statuses and one that is none
\* of them.
UpdateStatuses ==
  {STATUS_IDLE, STATUS_ACTIVE, STATUS_SUCCESS, STATUS_SOFTFAIL,
   STATUS_HARDFAIL, "unknown"}

\* The clock of the job record stops here.
MaxRecordTime == 60

\* Job.__init__ reads the softfail delay and threshold only.
RecordConfigs == {c \in Configs : ~c.read_only /\ ~c.admin_only_jobs}

InitRecord ==
  /\ now = 0
  /\ config \in RecordConfigs
  /\ rows = <<NewRow("job", "normal", 0, 0)>>
  /\ qpc = "record"
  /\ job_counts = [queue \in Priorities |-> 0]
  /\ delays = [queue \in Priorities |-> 0]
  /\ qi = 1
  /\ last_jobs = [queue \in Priorities |-> NULL]
  /\ last_overflow_warning = [queue \in Priorities |-> NULL]
  /\ transient_errors = <<>>
  /\ qjob = JobData(rows, 1)
  /\ qexc = "none"
  /\ served = <<>>
  /\ cpc = "off"
  /\ cjobs = NoJob
  /\ dpc = "run"
  /\ d_transient_errors = <<>>
  /\ deadline = now + config.max_run_time
  /\ sql_left = 0
  /\ google_nicknames = NoNicknames
  /\ gapps_nicknames = NoNicknames
  /\ last = NoOp

\* Time passes between two calls.
RecordTick ==
  /\ qpc = "record"
  /\ \E d \in ClockSteps : now + d <= MaxRecordTime /\ now' = now + d
  /\ UNCHANGED <<config, nickVars, rows, queueVars, cliVars, daemonVars,
                 last>>

\* The history of a call on the job object: the row and the object before it.
RecordCall(op) ==
  [op |-> op, q |-> qjob.q_id, pre |-> rows[qjob.q_id], data |-> qjob,
   again |-> last.op = op]

\* Job.MarkAdmin()
RecordMarkAdmin ==
  /\ qpc = "record"
  /\ rows' = SqlUpdate(rows, MarkAdminValues, qjob.q_id)
  /\ qjob' = DataUpdate(qjob, MarkAdminValues)
  /\ last' = RecordCall("MarkAdmin")
  /\ UNCHANGED <<now, config, nickVars, qpc, job_counts, delays, qi,
                 last_jobs, last_overflow_warning, transient_errors, qexc,
                 served, cliVars, daemonVars>>

\* Job.MarkActive()
RecordMarkActive ==
  /\ qpc = "record"
  /\ rows' = SqlUpdate(rows, MarkActiveValues(now), qjob.q_id)
  /\ qjob' = DataUpdate(qjob, MarkActiveValues(now))
  /\ last' = RecordCall("MarkActive")
  /\ UNCHANGED <<now, config, nickVars, qpc, job_counts, delays, qi,
                 last_jobs, last_overflow_warning, transient_errors, qexc,
                 served, cliVars, daemonVars>>

\* Job.Update(status, message): u is what JobUpdate gives, the UPDATE is made
\* when it does not raise.
RecordUpdated(u, status, message) ==
  /\ rows' = IF u.raised THEN rows ELSE SqlUpdate(rows, u.values, qjob.q_id)
  /\ qjob' = u.data
  /\ last' = [op |-> "Update", q |-> qjob.q_id, pre |-> rows[qjob.q_id],
              data |-> qjob, again |-> FALSE, status |-> status,
              message |-> message,
              raised |-> IF u.raised THEN "JobActionError" ELSE "none"]

RecordUpdate ==
  /\ qpc = "record"
  /\ \E status \in UpdateStatuses, message \in {"again"} :
       /\ status = STATUS_SOFTFAIL =>
            qjob.r_softfail_count <= JobSoftfailThreshold
       /\ RecordUpdated(JobUpdate(qjob, status, message, now), status, message)
  /\ UNCHANGED <<now, config, nickVars, qpc, job_counts, delays, qi,
                 last_jobs, last_overflow_warning, transient_errors, qexc,
                 served, cliVars, daemonVars>>

NextRecord ==
  \/ RecordTick
  \/ RecordMarkAdmin
  \/ RecordMarkActive
  \/ RecordUpdate

SpecRecord == InitRecord /\ [][NextRecord]_vars

-----------------------------------------------------------------------------
(* The daemon started on a table a previous run has left: rows waiting to   *)
(* be dispatched, rows a job object cannot be built from, and rows left     *)
(* active by a daemon that has ended while their handler ran.  The daemon   *)
(* is started RecoveryStart seconds after the oldest of these.              *)

MaxRecoveryJobs == 2
RecoveryStart == 100

\* A row left active by a handler started at time start.
OrphanRow(p_priority, start) ==
  [NewRow("r_activity", p_priority, 0, 0) EXCEPT
     !.p_status = STATUS_ACTIVE, !.p_start_date = start]

\* The rows of the table: statistics jobs, with parameters that are or are
\* not JSON, rows of a type that is not registered, and orphans whose lease
\* has or has not run out at RecoveryStart.
RecoveryRows ==
  {NewRow(j_type, p_priority, 0, 0) :
     j_type \in {"r_activity", "foo"}, p_priority \in Priorities}
  \cup {[NewRow("r_activity", p_priority, 0, 0) EXCEPT !.j_parameters = ""] :
          p_priority \in Priorities}
  \cup {OrphanRow(p_priority, start) :
          p_priority \in Priorities,
          start \in {0, RecoveryStart - ACTIVE_LEASE + 30}}

RECURSIVE RecoveryTables(_)
RecoveryTables(n) ==
  IF n = 0 THEN {<<>>}
  ELSE {<<>>} \cup
       {Append(t, r) : t \in RecoveryTables(n - 1), r \in RecoveryRows}

InitRecovery ==
  /\ now = RecoveryStart
  /\ config \in DaemonConfigs
  /\ rows \in RecoveryTables(MaxRecoveryJobs)
  /\ qpc = "check"
  /\ job_counts = [queue \in Priorities |-> 0]
  /\ delays = [queue \in Priorities |-> 0]
  /\ qi = 1
  /\ last_jobs = [queue \in Priorities |-> NULL]
  /\ last_overflow_warning = [queue \in Priorities |-> NULL]
  /\ transient_errors = <<>>
  /\ qjob = NoJob
  /\ qexc = "none"
  /\ served = <<>>
  /\ cpc = "off"
  /\ cjobs = NoJob
  /\ dpc = "run"
  /\ d_transient_errors = <<>>
  /\ deadline = now + config.max_run_time
  /\ sql_left = MaxDaemonSqlErrors
  /\ google_nicknames = NoNicknames
  /\ gapps_nicknames = NoNicknames
  /\ last = NoOp

SpecRecovery == InitRecovery /\ [][NextDaemon]_vars

-----------------------------------------------------------------------------
(* The daemon on a table of account deletions, alias resynchronisations     *)
(* and reports, in read-only mode or not: the account report enqueues the   *)
(* synchronisation of the accounts it finds changed.                        *)

MaxReportingJobs == 2

\* The daemon runs without gappsd.admin-only-jobs; gappsd.read-only is the
\* administrator's choice.
ReportingConfigs ==
  {[c EXCEPT !.read_only = b] : c \in DaemonConfigs, b \in BOOLEAN}

\* The rows the website inserts, and the two tools/queue-cleaner.py does
\* (the reports, with the priority offline).
ReportingRows ==
  {NewRow(j_type, "immediate", 0, 0) :
     j_type \in {"u_delete", "n_resync", "r_activity", "r_accounts"}}
  \cup {NewRow(j_type, "offline", 0, 0) :
          j_type \in {"r_activity", "r_accounts"}}

RECURSIVE ReportingTables(_)
ReportingTables(n) ==
  IF n = 0 THEN {<<>>}
  ELSE {<<>>} \cup
       {Append(t, r) : t \in ReportingTables(n - 1), r \in ReportingRows}

InitReporting ==
  /\ now = 0
  /\ config \in ReportingConfigs
  /\ rows \in ReportingTables(MaxReportingJobs)
  /\ qpc = "check"
  /\ job_counts = [queue \in Priorities |-> 0]
  /\ delays = [queue \in Priorities |-> 0]
  /\ qi = 1
  /\ last_jobs = [queue \in Priorities |-> NULL]
  /\ last_overflow_warning = [queue \in Priorities |-> NULL]
  /\ transient_errors = <<>>
  /\ qjob = NoJob
  /\ qexc = "none"
  /\ served = <<>>
  /\ cpc = "off"
  /\ cjobs = NoJob
  /\ dpc = "run"
  /\ d_transient_errors = <<>>
  /\ deadline = now + config.max_run_time
  /\ sql_left = MaxDaemonSqlErrors
  /\ google_nicknames = NoNicknames
  /\ gapps_nicknames = NoNicknames
  /\ last = NoOp

SpecReporting == InitReporting /\ [][NextDaemon]_vars

-----------------------------------------------------------------------------
(* The alias jobs (provisioning.py) under the queue manager.  The aliases   *)
(* of the domain at Google and the table gapps_nicknames are maps from the  *)
(* alias to its owner; the parameters of a job and the results of its API   *)
(* calls are the inputs of its Run.                                         *)

MaxNicknameJobs == 2

\* The keys of a dict of aliases.
Keys(d) == {nickname \in Nicknames : d[nickname] # NoUser}

\* SQL.Insert("gapps_nicknames", ...): the table holds one row per alias,
\* MySQL refuses a second row with the same g_nickname (IntegrityError, that
\* SQL.__Query raises again as SQLPermanentError).
InsertNickname(table, nickname, username) ==
  IF table[nickname] # NoUser
  THEN [table |-> table, raised |-> "PermanentError"]
  ELSE [table |-> [table EXCEPT ![nickname] = username], raised |-> "none"]

\* NicknameResyncJob._CreateSqlNickname
_CreateSqlNickname(table, nickname, username) ==
  InsertNickname(table, nickname, username)

\* NicknameResyncJob._DeleteSqlNickname, and the DELETE of NicknameDeleteJob.
_DeleteSqlNickname(table, nickname) == [table EXCEPT ![nickname] = NoUser]

\* What Run did: its outcome, the aliases at Google and the table as it
\* leaves them, and the API calls it made.
NicknameHandled(outcome, google, table, remote) ==
  [outcome |-> outcome, google |-> google, table |-> table, remote |-> remote]

\* ProvisioningApiClient2.CreateNickname: Google refuses an alias that an
\* account already holds (api.HandleError: PermanentError).
CreateNickname(google, nickname, created) ==
  IF created = "ok" /\ google[nickname] # NoUser THEN "permanent" ELSE created

\* NicknameCreateJob.Run after the remote part: the INSERT and the Update.
NicknameCreateSql(google, table, username, nickname, remote) ==
  LET ins == InsertNickname(table, nickname, username)
  IN  IF ins.raised # "none"
      THEN NicknameHandled("permanent", google, table, remote)
      ELSE NicknameHandled("success", google, ins.table, remote)

\* NicknameCreateJob.Run
NicknameCreateRun(google, table, username, nickname, retrieved, created) ==
  IF retrieved # "ok"
  THEN NicknameHandled(retrieved, google, table, <<"RetrieveNicknames">>)
  ELSE IF google[nickname] = username
  THEN NicknameCreateSql(google, table, username, nickname,
                         <<"RetrieveNicknames">>)
  ELSE IF CreateNickname(google, nickname, created) # "ok"
  THEN NicknameHandled(CreateNickname(google, nickname, created), google,
                       table, <<"RetrieveNicknames", "CreateNickname">>)
  ELSE NicknameCreateSql([google EXCEPT ![nickname] = username], table,
                         username, nickname,
                         <<"RetrieveNicknames", "CreateNickname">>)

\* NicknameDeleteJob.Run
NicknameDeleteRun(google, table, username, nickname, retrieved, deleted) ==
  IF retrieved # "ok"
  THEN NicknameHandled(retrieved, google, table, <<"RetrieveNicknames">>)
  ELSE IF google[nickname] # username
  THEN NicknameHandled("success", google,
                       _DeleteSqlNickname(table, nickname),
                       <<"RetrieveNicknames">>)
  ELSE IF deleted # "ok"
  THEN NicknameHandled(deleted, google, table,
                       <<"RetrieveNicknames", "DeleteNickname">>)
  ELSE NicknameHandled("success", [google EXCEPT ![nickname] = NoUser],
                       _DeleteSqlNickname(table, nickname),
                       <<"RetrieveNicknames", "DeleteNickname">>)

\* Faulty variant: an alias whose owner differs is left as it is.
ResyncKeepsOwner(s, google, nickname) ==
  IF s.raised # "none" THEN s
  ELSE IF s.sql_nicknames[nickname] = NoUser
  THEN LET ins == _CreateSqlNickname(s.table, nickname, google[nickname])
       IN  [s EXCEPT !.table = ins.table, !.raised = ins.raised]
  ELSE [s EXCEPT !.sql_nicknames[nickname] = NoUser]

\* NicknameResyncJob.Run, the body of the first loop for one alias of
\* google_nicknames: s holds the table, the dict sql_nicknames and the
\* exception raised so far.
ResyncNickname(s, google, nickname) ==
  IF s.raised # "none" THEN s
  ELSE IF s.sql_nicknames[nickname] = NoUser
  THEN LET ins == _CreateSqlNickname(s.table, nickname, google[nickname])
       IN  [s EXCEPT !.table = ins.table, !.raised = ins.raised]
  ELSE IF s.sql_nicknames[nickname] # google[nickname]
  THEN LET ins == _CreateSqlNickname(_DeleteSqlNickname(s.table, nickname),
                                     nickname, google[nickname])
       IN  [s EXCEPT !.table = ins.table, !.raised = ins.raised,
                     !.sql_nicknames[nickname] = NoUser]
  ELSE [s EXCEPT !.sql_nicknames[nickname] = NoUser]

\* for nickname in google_nicknames: ...
RECURSIVE ResyncGoogle(_, _, _)
ResyncGoogle(s, google, todo) ==
  IF todo = {} THEN s
  ELSE LET nickname == CHOOSE n \in todo : TRUE
       IN  ResyncGoogle(ResyncNickname(s, google, nickname), google,
                        todo \ {nickname})

\* for nickname in sql_nicknames: self._DeleteSqlNickname(nickname)
RECURSIVE ResyncSql(_, _)
ResyncSql(table, todo) ==
  IF todo = {} THEN table
  ELSE LET nickname == CHOOSE n \in todo : TRUE
       IN  ResyncSql(_DeleteSqlNickname(table, nickname), todo \ {nickname})

\* NicknameResyncJob.Run
NicknameResyncRun(google, table, retrieved) ==
  IF retrieved # "ok"
  THEN NicknameHandled(retrieved, google, table, <<"RetrieveAllNicknames">>)
  ELSE LET s == ResyncGoogle([table |-> table, sql_nicknames |-> table,
                              raised |-> "none"], google, Keys(google))
       IN  IF s.raised # "none"
           THEN NicknameHandled("permanent", google, s.table,
                                <<"RetrieveAllNicknames">>)
           ELSE NicknameHandled("success", google,
                                ResyncSql(s.table, Keys(s.sql_nicknames)),
                                <<"RetrieveAllNicknames">>)

\* The jobs run with neither gappsd.read-only nor gappsd.admin-only-jobs.
NicknameConfigs == {c \in Configs : ~c.read_only /\ ~c.admin_only_jobs}

\* The states of an alias map.
NicknameMaps == [Nicknames -> Usernames \cup {NoUser}]

RECURSIVE NicknameTables(_)
NicknameTables(n) ==
  IF n = 0 THEN {<<>>}
  ELSE {<<>>} \cup
       {CreateQueueJob(t, j_type, "normal", 0, 0) :
          t \in NicknameTables(n - 1),
          j_type \in {"n_create", "n_delete", "n_resync"}}

InitNicknames ==
  /\ now = 0
  /\ config \in NicknameConfigs
  /\ rows \in NicknameTables(MaxNicknameJobs)
  /\ qpc = "check"
  /\ job_counts = [queue \in Priorities |-> 0]
  /\ delays = [queue \in Priorities |-> 0]
  /\ qi = 1
  /\ last_jobs = [queue \in Priorities |-> NULL]
  /\ last_overflow_warning = [queue \in Priorities |-> NULL]
  /\ transient_errors = <<>>
  /\ qjob = NoJob
  /\ qexc = "none"
  /\ served = <<>>
  /\ cpc = "off"
  /\ cjobs = NoJob
  /\ dpc = "run"
  /\ d_transient_errors = <<>>
  /\ deadline = now + config.max_run_time
  /\ sql_left = 0
  /\ google_nicknames \in NicknameMaps
  /\ gapps_nicknames \in NicknameMaps
  /\ last = NoOp

\* Queue._ProcessJob(job): h is what the handler does when it is run, s the
\* Step of _ProcessJob, api the results of the API calls of the handler.
NicknameProcessed(s, h, username, nickname, api) ==
  /\ rows' = s.rows
  /\ google_nicknames' = IF ReadOnlyGate(qjob) THEN google_nicknames
                         ELSE h.google
  /\ gapps_nicknames' = IF ReadOnlyGate(qjob) THEN gapps_nicknames
                        ELSE h.table
  /\ transient_errors' = _AddTransientError(transient_errors, s.transient, now)
  /\ qexc' = s.raised
  /\ qpc' = IF s.raised = "none" THEN "next" ELSE "raised"
  /\ last' = [op |-> "process", drv |-> "queue", q |-> qjob.q_id,
              pre |-> rows[qjob.q_id], calls |-> s.calls,
              errors |-> Len(transient_errors),
              remote |-> IF ReadOnlyGate(qjob) THEN <<>> ELSE h.remote,
              username |-> username, nickname |-> nickname, api |-> api,
              google |-> google_nicknames, table |-> gapps_nicknames]

NicknameHandler(h, username, nickname, api) ==
  NicknameProcessed(_ProcessJob(rows, qjob, h.outcome, now), h,
                    username, nickname, api)

NicknameCreateProcess ==
  /\ qpc = "process"
  /\ qjob.j_type = "n_create"
  /\ \E username \in Usernames, nickname \in Nicknames,
        retrieved \in ApiResults, created \in ApiResults :
       NicknameHandler(
         NicknameCreateRun(google_nicknames, gapps_nicknames, username,
                           nickname, retrieved, created),
         username, nickname, {retrieved, created})
  /\ qjob' = NoJob
  /\ UNCHANGED <<now, config, job_counts, delays, qi, last_jobs,
                 last_overflow_warning, served, cliVars, daemonVars>>

NicknameDeleteProcess ==
  /\ qpc = "process"
  /\ qjob.j_type = "n_delete"
  /\ \E username \in Usernames, nickname \in Nicknames,
        retrieved \in ApiResults, deleted \in ApiResults :
       NicknameHandler(
         NicknameDeleteRun(google_nicknames, gapps_nicknames, username,
                           nickname, retrieved, deleted),
         username, nickname, {retrieved, deleted})
  /\ qjob' = NoJob
  /\ UNCHANGED <<now, config, job_counts, delays, qi, last_jobs,
                 last_overflow_warning, served, cliVars, daemonVars>>

NicknameResyncProcess ==
  /\ qpc = "process"
  /\ qjob.j_type = "n_resync"
  /\ \E retrieved \in ApiResults :
       NicknameHandler(
         NicknameResyncRun(google_nicknames, gapps_nicknames, retrieved),
         NoUser, NoUser, {retrieved})
  /\ qjob' = NoJob
  /\ UNCHANGED <<now, config, job_counts, delays, qi, last_jobs,
                 last_overflow_warning, served, cliVars, daemonVars>>

NextNicknames ==
  \/ QCheckTransientErrors
  \/ QProcessNextJob
  \/ QGetNextPriorityQueue
  \/ QSleep
  \/ QGetJobFromQueue
  \/ NicknameCreateProcess
  \/ NicknameDeleteProcess
  \/ NicknameResyncProcess

SpecNicknames == InitNicknames /\ [][NextNicknames]_vars

-----------------------------------------------------------------------------
(* The helpers of the queue manager called on their own, as testing/queue.py *)
(* calls them: _CheckTransientErrors on a window of errors, and             *)
(* _GetCurrentQueueDelays on the job counts of the three classes; and a     *)
(* method of the directory client whose call of the API fails.              *)

MaxWindow == 5

\* The time of the call, and the dates before it: one hour and one second,
\* one hour, one second less than one hour.
HelperNow == _TRANSIENT_ERRORS_VALIDITY + 1
HelperDates == {0, 1, 2}

\* The configuration of the tests (minimal delay 4, normal delay 10, offline
\* delay 15 or 30), also with the smallest minimal delay Queue.Run accepts,
\* with or without gappsd.queue-warn-overflow.
HelperConfigs ==
  [read_only : {FALSE}, admin_only_jobs : {FALSE},
   queue_min_delay : {1, 4}, queue_delay_normal : {10},
   queue_delay_offline : {15, 30}, queue_warn_overflow : BOOLEAN,
   job_softfail_delay : {300},
   job_softfail_threshold : {JobSoftfailThreshold}, max_run_time : {3600}]

\* Queue._transient_errors: _AddTransientError appends, so the dates are in
\* order.
RECURSIVE Windows(_)
Windows(n) ==
  IF n = 0 THEN {<<>>}
  ELSE {<<>>} \cup
       {Append(w, [date |-> d, exc_type |-> e]) :
          w \in {v \in Windows(n - 1) : Len(v) = n - 1},
          d \in HelperDates, e \in {"CredentialError", "TransientError"}}

Ordered(w) == \A i \in 1..(Len(w) - 1) : w[i].date <= w[i + 1].date

\* The rows a class holds: none, and the counts around the points where the
\* nominal delay of a class, or the minimal delay, fills 24 hours.
HelperCounts == {0, 5761, 8641, 21600, 21601, 86400}

InitHelpers ==
  /\ now = HelperNow
  /\ config \in HelperConfigs
  /\ rows = <<>>
  /\ \/ /\ qpc = "check"
        /\ transient_errors \in {w \in Windows(MaxWindow) : Ordered(w)}
        /\ job_counts = [queue \in Priorities |-> 0]
        /\ last_overflow_warning = [queue \in Priorities |-> NULL]
     \/ /\ qpc = "delays"
        /\ transient_errors = <<>>
        /\ job_counts \in [Priorities -> HelperCounts]
        /\ last_overflow_warning \in [Priorities -> HelperDates \cup {NULL}]
     \/ /\ qpc = "api"
        /\ transient_errors = <<>>
        /\ job_counts = [queue \in Priorities |-> 0]
        /\ last_overflow_warning = [queue \in Priorities |-> NULL]
  /\ delays = [queue \in Priorities |-> 0]
  /\ qi = 1
  /\ last_jobs = [queue \in Priorities |-> NULL]
  /\ qjob = NoJob
  /\ qexc = "none"
  /\ served = <<>>
  /\ cpc = "off"
  /\ cjobs = NoJob
  /\ dpc = "run"
  /\ d_transient_errors = <<>>
  /\ deadline = now + config.max_run_time
  /\ sql_left = 0
  /\ google_nicknames = NoNicknames
  /\ gapps_nicknames = NoNicknames
  /\ last = NoOp

\* Queue._GetCurrentQueueDelays(job_counts)
HGetCurrentQueueDelays ==
  /\ qpc = "delays"
  /\ delays' = _GetCurrentQueueDelays(job_counts)
  /\ last_overflow_warning' =
       OverflowWarnings(last_overflow_warning, job_counts, now)
  /\ qpc' = "next"
  /\ last' = [op |-> "delays", warnings |-> last_overflow_warning]
  /\ UNCHANGED <<now, config, nickVars, rows, job_counts, qi, last_jobs,
                 transient_errors, qjob, qexc, served, cliVars, daemonVars>>

\* What a call of the directory API can raise: a network error of httplib2,
\* an HTTP error answer with its status, or any other exception.
HttpStatuses == {400, 401, 403, 404, 409, 500, 502, 503}
ApiErrors ==
  {[class |-> "HttpLib2Error", status |-> 0],
   [class |-> "Exception", status |-> 0]} \cup
  {[class |-> "HttpError", status |-> s] : s \in HttpStatuses}

\* api.HandleError: the exception raised for an error of the API.
HandleError(error) ==
  IF error.class = "HttpLib2Error" THEN "TransientError"
  ELSE IF error.class = "HttpError"
       THEN IF error.status = 500 THEN "TransientError" ELSE "PermanentError"
       ELSE "TransientError"

\* api.HandleErrorAllowMissing: "none" when it returns None.
HandleErrorAllowMissing(error) ==
  IF error.class = "HttpError" /\ error.status = 404
  THEN "none"
  ELSE HandleError(error)

\* The methods of ProvisioningApiClient2 that call the API, and the one of
\* them that allows the object to be missing.
ApiMethods == {"RetrieveUser", "CreateUser", "UpdateUser", "DeleteUser",
               "RetrieveNicknames", "CreateNickname", "DeleteNickname"}
AllowMissing == {"RetrieveUser"}

\* ProvisioningApiClient2.<method>, when the call of the API raises error.
ApiCallFails ==
  /\ qpc = "api"
  /\ \E method \in ApiMethods, error \in ApiErrors :
       /\ qexc' = IF method \in AllowMissing
                  THEN HandleErrorAllowMissing(error)
                  ELSE HandleError(error)
       /\ last' = [op |-> "api", method |-> method, error |-> error]
  /\ qpc' = IF qexc' = "none" THEN "next" ELSE "raised"
  /\ UNCHANGED <<now, config, nickVars, rows, job_counts, delays, qi,
                 last_jobs, last_overflow_warning, transient_errors, qjob,
                 served, cliVars, daemonVars>>

NextHelpers == QCheckTransientErrors \/ HGetCurrentQueueDelays \/ ApiCallFails

SpecHelpers == InitHelpers /\ [][NextHelpers]_vars

-----------------------------------------------------------------------------
(* Properties. *)

Terminal(r) == r.p_status \in {STATUS_SUCCESS, STATUS_HARDFAIL}

\* The calls of the last operation, when it ran Queue._ProcessJob.
Processed == last.op = "process"
Called(name) == \E i \in DOMAIN last.calls : last.calls[i].call = name
SoftfailUpdates ==
  {i \in DOMAIN last.calls :
     /\ last.calls[i].call = "Update"
     /\ last.calls[i].status = STATUS_SOFTFAIL}

\* The state right after _GetJobCounts of a poll cycle.
Polled == qpc = "next" /\ served = <<>>

Rank(queue) ==
  CASE queue = "immediate" -> 1
    [] queue = "normal" -> 2
    [] queue = "offline" -> 3

\* C1: once a row is success or hardfail, its p_end_date is non-null and no
\* step of the queue manager or of the admin console changes its p_status.
C1_TerminalIsFinal ==
  [][\A q \in DOMAIN rows :
       /\ Terminal(rows[q]) =>
            /\ rows[q].p_end_date # NULL
            /\ rows'[q].p_status = rows[q].p_status
       /\ Terminal(rows'[q]) => rows'[q].p_end_date # NULL]_vars

\* A terminal row whose lease has run out, seen by a poll that does not count
\* it.
C1_Witness ==
  /\ Polled
  /\ \E q \in DOMAIN rows :
       /\ Terminal(rows[q])
       /\ rows[q].p_start_date # NULL
       /\ rows[q].p_start_date + ACTIVE_LEASE <= now
       /\ job_counts[rows[q].p_priority] = 0

\* C2: Update(softfail, message) on a row whose r_softfail_count is the
\* threshold minus one leaves the row hardfail, with the message followed by
\* " [softfail threshold reached]" and p_end_date set; on a row whose
\* incremented count is below the threshold it leaves the row softfail with
\* the count incremented by one.
C2_SoftfailPromotion ==
  Processed =>
    \A i \in SoftfailUpdates :
      IF last.pre.r_softfail_count = config.job_softfail_threshold - 1
      THEN /\ rows[last.q].p_status = STATUS_HARDFAIL
           /\ rows[last.q].r_result =
                last.calls[i].message \o " [softfail threshold reached]"
           /\ rows[last.q].p_end_date # NULL
      ELSE last.pre.r_softfail_count + 1 < config.job_softfail_threshold =>
             /\ rows[last.q].p_status = STATUS_SOFTFAIL
             /\ rows[last.q].r_softfail_count = last.pre.r_softfail_count + 1

C2_Witness ==
  /\ Processed
  /\ SoftfailUpdates # {}
  /\ last.pre.r_softfail_count = config.job_softfail_threshold - 1
  /\ rows[last.q].p_status = STATUS_HARDFAIL
  /\ rows[last.q].r_result = "net [softfail threshold reached]"

\* C3: a row's r_softfail_count never decreases and never exceeds the
\* softfail threshold.
C3_SoftfailCountMonotone ==
  [][\A q \in DOMAIN rows :
       /\ rows[q].r_softfail_count <= rows'[q].r_softfail_count
       /\ rows[q].r_softfail_count <= config.job_softfail_threshold
       /\ rows'[q].r_softfail_count <= config.job_softfail_threshold]_vars

C3_Witness ==
  \E q \in DOMAIN rows :
    /\ rows[q].r_softfail_count = config.job_softfail_threshold
    /\ last.op = "process" /\ last.q = q
    /\ last.pre.r_softfail_count < rows[q].r_softfail_count

\* C4: the rows the queue manager counts as runnable are exactly the
\* non-admin rows that are idle or softfail with p_notbefore_date <= now, or
\* active with p_start_date at least 90 seconds old.
ClaimedDispatchable(r, t) ==
  /\ r.p_admin_request = FALSE
  /\ \/ /\ r.p_status \in {STATUS_IDLE, STATUS_SOFTFAIL}
        /\ r.p_notbefore_date <= t
     \/ /\ r.p_status = STATUS_ACTIVE
        /\ r.p_start_date # NULL
        /\ r.p_start_date + 90 <= t

C4_DispatchableAsClaimed ==
  Polled =>
    \A queue \in Priorities :
      job_counts[queue] =
        Cardinality({q \in DOMAIN rows :
          rows[q].p_priority = queue /\ ClaimedDispatchable(rows[q], now)})

\* C5: the queue manager never counts, selects or holds a row with
\* p_admin_request set, and the admin console never holds a row without it.
C5_AdminPartition ==
  /\ Polled =>
       \A queue \in Priorities :
         job_counts[queue] <=
           Cardinality({q \in DOMAIN rows :
             rows[q].p_priority = queue /\ rows[q].p_admin_request = FALSE})
  /\ qjob # NoJob => rows[qjob.q_id].p_admin_request = FALSE
  /\ (last.op \in {"select", "markfailed"} /\ last.q # 0) =>
       last.pre.p_admin_request = (last.drv = "cli")
  /\ cjobs # NoJob => rows[cjobs.q_id].p_admin_request = TRUE

\* A parked row held by the admin console while a poll of the queue manager
\* does not count it.
C5_Witness ==
  /\ Polled
  /\ cjobs # NoJob
  /\ rows[cjobs.q_id].p_status = STATUS_IDLE
  /\ job_counts[rows[cjobs.q_id].p_priority] = 0

\* C6: whenever a handler's Run is called, the row was marked active before:
\* p_status = active and p_start_date set.
C6_ActiveBeforeRun ==
  (Processed /\ Called("Run")) =>
    /\ last.pre.p_status = STATUS_ACTIVE
    /\ last.pre.p_start_date # NULL

\* C7: the row the queue manager takes from a class is the eligible row of
\* that class with the smallest q_id.
C7_SmallestIdFirst ==
  (last.op \in {"select", "markfailed"} /\ last.drv = "queue" /\ last.q # 0) =>
    /\ _ACTIVE_JOBS_WHERE_CLAUSE(last.pre, now)
    /\ \A q \in 1..(last.q - 1) :
         ~(/\ rows[q].p_priority = last.pre.p_priority
           /\ _ACTIVE_JOBS_WHERE_CLAUSE(rows[q], now))

\* Row 1 is taken while row 2, of the same class, is eligible too.
C7_Witness ==
  /\ last.op = "select" /\ last.drv = "queue" /\ last.q = 1
  /\ Len(rows) >= 2
  /\ rows[2].p_priority = last.pre.p_priority
  /\ _ACTIVE_JOBS_WHERE_CLAUSE(rows[2], now)

\* C8: the slots of one poll cycle go to the classes in the order immediate,
\* normal, offline, and only to classes that had a runnable row when the
\* cycle started.
C8_PriorityOrder ==
  /\ \A i, j \in DOMAIN served : i < j => Rank(served[i]) <= Rank(served[j])
  /\ \A i \in DOMAIN served : job_counts[served[i]] > 0

C8_Witness ==
  /\ Len(served) >= 2
  /\ served[1] = "immediate"
  /\ served[Len(served)] = "offline"
  /\ job_counts["normal"] = 0

\* C9: a slot is granted to a class only if the class had none before or its
\* last one is at least the class's current delay old.
C9_DelayBetweenSlots ==
  last.op = "yield" =>
    \/ last.last_job = NULL
    \/ now - last.last_job >= last.delay

C9_Witness ==
  /\ last.op = "yield"
  /\ last.last_job # NULL
  /\ now - last.last_job >= last.delay

\* C10: in read-only mode a job whose handler declares side effects is made
\* hardfail with the read-only message and its Run is not called.
C10_ReadOnlyGate ==
  (Processed /\ config.read_only /\ HasSideEffects(last.pre.j_type)) =>
    /\ ~Called("Run")
    /\ rows[last.q].p_status = STATUS_HARDFAIL
    /\ rows[last.q].r_result = "GAppsd in read-only mode."
    /\ rows[last.q].p_end_date = now

C10_Witness ==
  /\ Processed /\ last.drv = "queue"
  /\ config.read_only
  /\ last.pre.j_type = "u_delete"
  /\ rows[last.q].p_status = STATUS_HARDFAIL

\* What the handler's Run of the last operation raised ("none": Run returned
\* or was not called).
RunRaised(kinds) ==
  \E i \in DOMAIN last.calls :
    last.calls[i].call = "Run" /\ last.calls[i].raised \in kinds

\* The updates the last operation made on the job, as <<status, message>>.
UpdatesMade ==
  [i \in {j \in DOMAIN last.calls : last.calls[j].call = "Update"} |->
     <<last.calls[i].status, last.calls[i].message>>]

\* C11: when Run raises a transient error, the queue manager appends the
\* error to its window and applies Update(softfail, message) to the row; when
\* Run raises a permanent error, it applies Update(hardfail, message) and the
\* window is left alone.
C11_ErrorClassification ==
  (Processed /\ last.drv = "queue") =>
    /\ RunRaised({"TransientError"}) =>
         /\ Len(transient_errors) = last.errors + 1
         /\ transient_errors[Len(transient_errors)] =
              [date |-> now, exc_type |-> "TransientError"]
         /\ {UpdatesMade[i] : i \in DOMAIN UpdatesMade} =
              {<<STATUS_SOFTFAIL, "net">>}
         /\ rows[last.q].p_status \in {STATUS_SOFTFAIL, STATUS_HARDFAIL}
         /\ rows[last.q].r_softfail_count = last.pre.r_softfail_count + 1
         /\ rows[last.q].r_softfail_date = now
         /\ rows[last.q].p_status = STATUS_SOFTFAIL =>
              rows[last.q].r_result = "net"
    /\ RunRaised({"PermanentError"}) =>
         /\ Len(transient_errors) = last.errors
         /\ rows[last.q].p_status = STATUS_HARDFAIL
         /\ rows[last.q].r_result = "denied"
         /\ rows[last.q].p_end_date = now
         /\ rows[last.q].r_softfail_count = last.pre.r_softfail_count

\* A transient error made the row softfail and is the newest of the window.
C11_Witness ==
  /\ Processed /\ last.drv = "queue"
  /\ RunRaised({"TransientError"})
  /\ rows[last.q].p_status = STATUS_SOFTFAIL
  /\ rows[last.q].r_result = "net"
  /\ Len(transient_errors) = 1

\* What the handler did in the Run of the last operation.
HandlerDid(outcome) ==
  \E i \in DOMAIN last.calls :
    last.calls[i].call = "Run" /\ last.calls[i].did = outcome

\* C12: when Run returns and the handler has neither made its row terminal,
\* nor parked it, nor incremented the softfail count, the queue manager
\* writes success; in the three other cases the row keeps the status the
\* handler gave it.
C12_ImplicitSuccess ==
  Processed =>
    /\ HandlerDid("silent") =>
         /\ rows[last.q].p_status = STATUS_SUCCESS
         /\ rows[last.q].p_end_date = now
         /\ rows[last.q].r_result = ""
    /\ HandlerDid("success") => rows[last.q].p_status = STATUS_SUCCESS
    /\ HandlerDid("hardfail") =>
         /\ rows[last.q].p_status = STATUS_HARDFAIL
         /\ rows[last.q].r_result = "bad"
    /\ HandlerDid("admin") =>
         /\ rows[last.q].p_status = STATUS_IDLE
         /\ rows[last.q].p_admin_request = TRUE
         /\ rows[last.q].p_end_date = NULL
    /\ HandlerDid("softfail") =>
         /\ rows[last.q].r_softfail_count = last.pre.r_softfail_count + 1
         /\ rows[last.q].p_status =
              IF last.pre.r_softfail_count + 1 >= config.job_softfail_threshold
              THEN STATUS_HARDFAIL ELSE STATUS_SOFTFAIL
    /\ (HandlerDid("hardfail") \/ HandlerDid("admin") \/ HandlerDid("softfail"))
         => {UpdatesMade[i][1] : i \in DOMAIN UpdatesMade} \subseteq
              {STATUS_HARDFAIL, STATUS_SOFTFAIL}

\* The handler returned without touching its row and the row is success.
C12_Witness ==
  /\ Processed
  /\ HandlerDid("silent")
  /\ last.pre.p_status = STATUS_ACTIVE
  /\ rows[last.q].p_status = STATUS_SUCCESS

\* C13 as claimed: no Transient or Permanent error that occurs while a poll
\* cycle selects, runs or writes back a row ends the queue manager.
C13_NeverEscapes ==
  ~(qpc = "raised" /\ qexc \in SqlErrors /\ last.op = "sqlerror")

\* C13: a Transient (Credential included) or Permanent error raised by the
\* run of a handler does not end the queue manager when the row can be
\* written: the row is softfail or hardfail and the poll cycle goes on.  An
\* exception that ends the queue manager is an error of one of its own SQL
\* statements or the escalation of its threshold check.
C13_HandlerErrorsSwallowed ==
  /\ (Processed /\ last.drv = "queue"
        /\ RunRaised({"TransientError", "CredentialError", "PermanentError"}))
       => /\ qpc = "next"
          /\ qexc = "none"
          /\ rows[last.q].p_status \in {STATUS_SOFTFAIL, STATUS_HARDFAIL}
          /\ rows[last.q].p_status # last.pre.p_status
  /\ (qpc = "raised" /\ dpc = "run")
       => \/ last.op = "sqlerror" /\ qexc \in SqlErrors
          \/ /\ last = NoOp
             /\ qexc \in {"TransientError", "CredentialError"}
             /\ qexc = CheckRaises(transient_errors)

\* A handler has raised a Transient error and the poll cycle goes on.
C13_Witness ==
  /\ Processed
  /\ last.drv = "queue"
  /\ RunRaised({"TransientError"})
  /\ qpc = "next"
  /\ rows[last.q].p_status = STATUS_SOFTFAIL

\* The credential errors of the queue manager's window that are within the
\* validity of the window.
CredentialErrors ==
  {i \in DOMAIN transient_errors :
     /\ transient_errors[i].exc_type = "CredentialError"
     /\ transient_errors[i].date >= now - _TRANSIENT_ERRORS_VALIDITY}

\* C14: once two Credential errors are in the window, the queue manager
\* raises Credential at its next check, and the supervisor that has received
\* it is in backup mode.
C14_BackupAfterCredential ==
  /\ (last = NoOp /\ qpc \in {"poll", "raised"}
        /\ Cardinality(CredentialErrors) >= _CREDENTIAL_ERRORS_THRESHOLD)
       => qpc = "raised" /\ qexc = "CredentialError"
  /\ (last.op = "except" /\ last.exc = "CredentialError") => dpc = "backup"

\* The queue manager has raised the Credential escalation.
Escalated == qpc = "raised" /\ qexc = "CredentialError"

\* C15 as claimed: from the moment the window holds two Credential errors no
\* row is dispatched and no row changes.
C15_StopsAtSecondError ==
  [][Cardinality(CredentialErrors) >= _CREDENTIAL_ERRORS_THRESHOLD
       => rows' = rows]_vars

\* C15: once the queue manager has raised Credential, at the check that
\* opens the poll cycle after the second Credential error, the daemon
\* dispatches no further row: every row keeps its state, the idle rows
\* remain idle, and the queue manager does not run again.
C15_StopsAfterEscalation ==
  [][Escalated => (rows' = rows /\ Escalated' /\ qjob' = NoJob)]_vars

\* The supervisor has received the Credential escalation while a row is idle.
C15_Witness ==
  /\ Escalated
  /\ dpc # "run"
  /\ \E q \in DOMAIN rows : rows[q].p_status = STATUS_IDLE

\* The supervisor has just handled a Transient termination of the queue
\* manager.
TransientReceived ==
  last.op = "except" /\ last.exc \in {"TransientError", "SQLTransientError"}

\* The events of the supervisor's window, the new one included, that were no
\* older than one hour when the supervisor handled that termination.
RecentEvents ==
  {i \in DOMAIN last.window :
     last.window[i].date >= last.at - Daemon_TRANSIENT_ERRORS_VALIDITY}

C17_BackupModeAbsorbing ==
  [][dpc = "backup" =>
       /\ dpc' = "backup"
       /\ UNCHANGED <<rows, queueVars, d_transient_errors, deadline>>
       /\ now' = now + _BACKUP_EMAIL_INTERVAL
       /\ last' = [op |-> "critical"]]_vars

\* The supervisor is in backup mode and has sent a reminder.
C17_Witness == dpc = "backup" /\ last.op = "critical"

Unprivileged(j_type) ==
  Processed /\ last.pre.j_type = j_type /\ ~config.admin_only_jobs

\* The row of the last operation has been parked by MarkAdmin, the only call
\* the handler made on it.
Parked ==
  /\ last.calls = <<RunCall("admin"), [call |-> "MarkAdmin"]>>
  /\ rows[last.q].p_status = STATUS_IDLE
  /\ rows[last.q].p_admin_request = TRUE
  /\ rows[last.q].p_start_date = NULL
  /\ rows[last.q].p_end_date = NULL
  /\ rows[last.q].r_softfail_count = last.pre.r_softfail_count
  /\ qexc = "none"

RemoteCalls == {last.remote[i] : i \in DOMAIN last.remote}

\* C19 as claimed: in non-privileged mode a user-delete job always ends
\* parked, without a remote call.
C19_AlwaysMarkAdmin ==
  Unprivileged("u_delete") =>
    /\ rows[last.q].p_status = STATUS_IDLE
    /\ rows[last.q].p_admin_request = TRUE
    /\ RemoteCalls = {}

\* C19: in non-privileged mode a user-delete job that is run ends by
\* mark-admin and by no other transition (idle, p_admin_request true), and in
\* read-only mode it is cancelled (hardfail) without being run; no remote
\* call is made in either case.
C19_DeleteParked ==
  Unprivileged("u_delete") =>
    /\ RemoteCalls = {}
    /\ ~config.read_only => Parked
    /\ config.read_only =>
         /\ ~Called("Run")
         /\ rows[last.q].p_status = STATUS_HARDFAIL
         /\ rows[last.q].r_result = ReadOnlyMessage

\* A user-delete job has been parked by a non-privileged daemon.
C19_Witness ==
  /\ Unprivileged("u_delete")
  /\ ~config.read_only
  /\ rows[last.q].p_admin_request = TRUE

\* The update the claim reserves to the privileged mode: the admin bit, or
\* the password or the suspension of an administrator.
Reserved ==
  \/ "admin" \in last.parameters
  \/ /\ last.user = "admin"
     /\ ("password" \in last.parameters \/ "suspended" \in last.parameters)

\* C20 as claimed: in non-privileged mode a reserved update always ends
\* parked and applies no remote update.
C20_AlwaysParked ==
  (Unprivileged("u_update") /\ ~config.read_only /\ Reserved) =>
    /\ rows[last.q].p_status = STATUS_IDLE
    /\ rows[last.q].p_admin_request = TRUE
    /\ "UpdateUser" \notin RemoteCalls

\* C20: in non-privileged mode a reserved update applies no remote update and
\* never ends success; it ends by mark-admin when the directory returns the
\* user, and softfail or hardfail when the lookup fails or finds no user; an
\* update of the names only of an administrator is not parked.
C20_UpdateParked ==
  (Unprivileged("u_update") /\ ~config.read_only) =>
    /\ Reserved =>
         /\ "UpdateUser" \notin RemoteCalls
         /\ rows[last.q].p_status # STATUS_SUCCESS
         /\ (last.retrieved = "ok" /\ last.user # "missing") => Parked
         /\ (last.retrieved # "ok" \/ last.user = "missing") =>
              /\ ~Called("MarkAdmin")
              /\ rows[last.q].p_status \in {STATUS_SOFTFAIL, STATUS_HARDFAIL}
    /\ (/\ last.parameters \subseteq {"first_name", "last_name"}
        /\ last.user = "admin"
        /\ last.retrieved = "ok")
         => /\ ~Called("MarkAdmin")
            /\ rows[last.q].p_admin_request = FALSE
            /\ "UpdateUser" \in RemoteCalls

\* The update of the password of an administrator has been parked.
C20_Witness ==
  /\ Unprivileged("u_update")
  /\ ~config.read_only
  /\ last.parameters = {"password"}
  /\ last.user = "admin"
  /\ rows[last.q].p_admin_request = TRUE

\* The last operation is that call on the job object.
RecordOp(op) == last.op = op /\ qpc = "record"

\* C21: mark-admin sets p_status = idle, p_admin_request = true and
\* p_start_date = null and leaves every other column of the row unchanged;
\* applied a second time, it leaves the row as the first application did.
C21_MarkAdminIdempotent ==
  RecordOp("MarkAdmin") =>
    /\ rows[last.q] =
         [last.pre EXCEPT !.p_status = STATUS_IDLE, !.p_admin_request = TRUE,
                          !.p_start_date = NULL]
    /\ last.again => rows[last.q] = last.pre

\* mark-admin applied twice in a row to a job that has failed before.
C21_Witness ==
  /\ RecordOp("MarkAdmin")
  /\ last.again
  /\ rows[last.q].p_status = STATUS_IDLE
  /\ rows[last.q].p_admin_request = TRUE
  /\ rows[last.q].r_softfail_count > 0

\* The last operation is Update with one of these statuses.
UpdateWith(statuses) == RecordOp("Update") /\ last.status \in statuses

\* The call left the row in the table and the job record as they were.
RecordUnchanged == rows[last.q] = last.pre /\ qjob = last.data

\* C22 as claimed: the error of an unknown status is a Permanent error.
C22_PermanentOnUnknown ==
  /\ UpdateWith({STATUS_IDLE, STATUS_ACTIVE}) =>
       last.raised # "none" /\ RecordUnchanged
  /\ UpdateWith({"unknown"}) =>
       last.raised = "PermanentError" /\ RecordUnchanged

\* C22: update(status, message) rejects the statuses idle and active and an
\* unknown status with a job-action error, which is not of the Permanent
\* kind; in the three cases the row in the table and the job record are left
\* unchanged.  The statuses success, softfail and hardfail are accepted.
C22_UpdateRejects ==
  /\ UpdateWith({STATUS_IDLE, STATUS_ACTIVE, "unknown"}) =>
       last.raised = "JobActionError" /\ RecordUnchanged
  /\ UpdateWith({STATUS_SUCCESS, STATUS_SOFTFAIL, STATUS_HARDFAIL}) =>
       /\ last.raised = "none"
       /\ rows[last.q].p_status \in {last.status, STATUS_HARDFAIL}

\* An unknown status has been refused on a job that is active.
C22_Witness ==
  /\ UpdateWith({"unknown"})
  /\ last.raised = "JobActionError"
  /\ last.pre.p_status = STATUS_ACTIVE
  /\ rows[last.q].p_status = STATUS_ACTIVE

\* No job object can be built from the row.
Unbuildable(r) == InstantiateRaises(r) # "none"

\* The row has been forced to hardfail by MarkFailed for that reason.
FailedAtInstantiation(r) ==
  /\ Unbuildable(r)
  /\ r.p_status = STATUS_HARDFAIL
  /\ r.r_result = InstantiationError(r)

\* C23: a selected row whose type is not registered, or whose construction
\* raises a job error, has no handler run: the scheduler holds no job object
\* for it and does not mark it active, it makes the row hardfail with
\* p_end_date = now and the instantiation-error message, and from then on the
\* row is never selected or changed again.
C23_UnbuildableFailed ==
  /\ [](/\ last.op = "markfailed" =>
             /\ Unbuildable(last.pre)
             /\ rows[last.q] =
                  [last.pre EXCEPT !.p_status = STATUS_HARDFAIL,
                                   !.p_end_date = now,
                                   !.r_result = InstantiationError(last.pre)]
             /\ qjob = NoJob
        /\ (last.op \in {"select", "process"} /\ last.q # 0) =>
             ~Unbuildable(last.pre)
        /\ qjob # NoJob => ~Unbuildable(rows[qjob.q_id]))
  /\ [][\A q \in DOMAIN rows :
          FailedAtInstantiation(rows[q]) =>
            /\ rows'[q] = rows[q]
            /\ qjob'.q_id # q
            /\ ~(last'.op \in {"select", "markfailed", "process"}
                   /\ last' # last /\ last'.q = q)]_vars

\* A row whose parameters are not JSON has been failed, and a later poll does
\* not count it.
C23_Witness ==
  /\ Polled
  /\ \E q \in DOMAIN rows :
       /\ FailedAtInstantiation(rows[q])
       /\ rows[q].j_parameters = ""
       /\ rows[q].p_end_date < now
       /\ job_counts[rows[q].p_priority] = 0

\* A non-admin row left active whose p_start_date is at least 90 seconds old.
Orphaned(r, t) ==
  /\ r.p_status = STATUS_ACTIVE
  /\ r.p_admin_request = FALSE
  /\ r.p_start_date # NULL
  /\ r.p_start_date + 90 <= t

\* The queue manager has just selected a row and marked it active.
Dispatched == last.op = "select" /\ last.drv = "queue" /\ last.q # 0

\* C24: a non-admin row left active with a p_start_date at least 90 seconds
\* old is counted as runnable by every poll of the started daemon, and its
\* dispatch renews p_start_date: a row is never dispatched while it is active
\* with a p_start_date less than 90 seconds old, nor while a handler run is
\* outstanding, nor once it is success or hardfail.
C24_CrashRecovery ==
  /\ [](/\ Polled =>
             \A queue \in Priorities :
               job_counts[queue] >=
                 Cardinality({q \in DOMAIN rows :
                   rows[q].p_priority = queue /\ Orphaned(rows[q], now)})
        /\ Dispatched =>
             /\ rows[last.q].p_status = STATUS_ACTIVE
             /\ rows[last.q].p_start_date = now
             /\ qjob.q_id = last.q
             /\ ~Terminal(last.pre)
             /\ last.pre.p_status = STATUS_ACTIVE => Orphaned(last.pre, now)
             /\ \A q \in 1..(last.q - 1) :
                  ~(Orphaned(rows[q], now)
                      /\ rows[q].p_priority = last.pre.p_priority))
  /\ [][qjob # NoJob => (qjob' = qjob \/ qjob' = NoJob)]_vars

\* The started daemon has dispatched a row that a previous run had left
\* active, after a row of the same class with a smaller q_id, and has renewed
\* its p_start_date.
C24_Witness ==
  /\ Dispatched
  /\ last.q = 2
  /\ Orphaned(last.pre, now)
  /\ last.pre.p_start_date < RecoveryStart
  /\ rows[1].p_priority = last.pre.p_priority
  /\ rows[last.q].p_start_date = now

\* C25: every row in status softfail has p_notbefore_date >= r_softfail_date
\* and a p_start_date that p_notbefore_date is later than, whichever of the
\* queue manager and the admin console made it softfail.
C25_SoftfailDates ==
  \A q \in DOMAIN rows :
    rows[q].p_status = STATUS_SOFTFAIL =>
      /\ rows[q].r_softfail_date # NULL
      /\ rows[q].p_notbefore_date >= rows[q].r_softfail_date
      /\ rows[q].p_start_date # NULL
      /\ rows[q].p_notbefore_date > rows[q].p_start_date

\* C26: in every reachable state, every row in status idle has a null
\* p_start_date: the rows as they are inserted, the rows parked by MarkAdmin
\* and the rows a handler has enqueued.
C26_IdleHasNoStartDate ==
  \A q \in DOMAIN rows :
    rows[q].p_status = STATUS_IDLE => rows[q].p_start_date = NULL

\* A deletion has been started, then parked, and the account report has
\* enqueued a synchronisation: both rows are idle with no start date.
C26_Witness ==
  \E q \in DOMAIN rows, e \in DOMAIN rows :
    /\ rows[q].j_type = "u_delete"
    /\ rows[q].p_status = STATUS_IDLE
    /\ rows[q].p_admin_request
    /\ rows[q].p_start_date = NULL
    /\ rows[e].j_type = "u_sync"
    /\ rows[e].p_status = STATUS_IDLE
    /\ rows[e].p_entry_date > 0
    /\ rows[e].p_start_date = NULL
    /\ \E a \in DOMAIN rows :
         rows[a].j_type = "r_accounts" /\ rows[a].p_status = STATUS_SUCCESS

\* The handlers that only read Google Apps: the synchronisation of an
\* account, the resynchronisation of the aliases and the two reports.
ReadOnlyHandlers == {"u_sync", "n_resync", "r_activity", "r_accounts"}

\* C27: the handlers user-sync, alias-resync, usage-report and
\* account-report declare no side effects, so in read-only mode their Run
\* is still called and the row is not cancelled by the read-only gate.
C27_ReadOnlyHandlersRun ==
  (Processed /\ config.read_only /\ last.pre.j_type \in ReadOnlyHandlers) =>
    /\ Called("Run")
    /\ rows[last.q].r_result # ReadOnlyMessage

\* The last operation ran an alias job of this type and left it in success.
NicknameJobDone(j_type) ==
  /\ Processed
  /\ last.pre.j_type = j_type
  /\ rows[last.q].p_status = STATUS_SUCCESS

\* C28: after a successful run of the alias resynchronisation, whatever the
\* aliases at Google and the rows of gapps_nicknames were, the table holds
\* exactly the (alias, owner) pairs of Google, which the run has not
\* changed; and a run on the table a run has left changes nothing.
C28_ResyncConverges ==
  /\ NicknameJobDone("n_resync") =>
       /\ Called("Run")
       /\ google_nicknames = last.google
       /\ gapps_nicknames = google_nicknames
       /\ gapps_nicknames =
            NicknameResyncRun(last.google, last.table, "ok").table
  /\ LET first == NicknameResyncRun(google_nicknames, gapps_nicknames, "ok")
         second == NicknameResyncRun(first.google, first.table, "ok")
     IN  /\ first.outcome = "success"
         /\ second.outcome = "success"
         /\ second.table = first.table
         /\ second.google = first.google

\* A run has found an alias with another owner in the table and an alias
\* that Google no longer has or that the table did not have, and repaired
\* both.
C28_Witness ==
  /\ NicknameJobDone("n_resync")
  /\ \E n \in Nicknames :
       /\ last.table[n] # NoUser
       /\ last.google[n] # NoUser
       /\ last.table[n] # last.google[n]
  /\ \E n \in Nicknames :
       (last.table[n] = NoUser) # (last.google[n] = NoUser)
  /\ gapps_nicknames = google_nicknames

\* The last operation ran an alias job of this type, and Google answered
\* every API call the handler made.
NicknameJobRan(j_type) ==
  /\ Processed
  /\ last.pre.j_type = j_type
  /\ Called("Run")
  /\ last.api = {"ok"}

\* C29: a creation of an alias that the account already has, at Google or in
\* gapps_nicknames or both, and a deletion of an alias that neither side
\* has, end in success and leave both sides as a first execution would:
\* the alias held by the account on both sides, or on neither.
C29_NicknameIdempotent ==
  /\ ( /\ NicknameJobRan("n_create")
       /\ \/ last.google[last.nickname] = last.username
          \/ last.table[last.nickname] = last.username
       /\ last.google[last.nickname] \in {last.username, NoUser}
       /\ last.table[last.nickname] \in {last.username, NoUser} ) =>
       /\ rows[last.q].p_status = STATUS_SUCCESS
       /\ google_nicknames =
            [last.google EXCEPT ![last.nickname] = last.username]
       /\ gapps_nicknames =
            [last.table EXCEPT ![last.nickname] = last.username]
  /\ ( /\ NicknameJobRan("n_delete")
       /\ last.google[last.nickname] = NoUser
       /\ last.table[last.nickname] = NoUser ) =>
       /\ rows[last.q].p_status = STATUS_SUCCESS
       /\ google_nicknames = last.google
       /\ gapps_nicknames = last.table

\* C30: a row the operator confirms in the console goes through the
\* dispatch path of the queue manager, in privileged mode: it is marked
\* active before its handler is invoked, the handler is run (unless the
\* read-only gate cancels the job) and does not call MarkAdmin, and the
\* outcome is applied, so the row is not idle again afterwards.
C30_ConsoleDispatch ==
  (Processed /\ last.drv = "cli") =>
    /\ last.pre.p_status = STATUS_ACTIVE
    /\ last.pre.p_start_date # NULL
    /\ Called("Run") \/ (config.read_only /\ HasSideEffects(last.pre.j_type))
    /\ ~Called("MarkAdmin")
    /\ rows[last.q].p_status \in
         {STATUS_SUCCESS, STATUS_SOFTFAIL, STATUS_HARDFAIL}

NotExpired(e) == e.date >= now - _TRANSIENT_ERRORS_VALIDITY

\* The entries of the window that are no older than one hour, by kind.
Remaining(kinds) ==
  {i \in DOMAIN transient_errors :
     NotExpired(transient_errors[i]) /\ transient_errors[i].exc_type \in kinds}

\* C32: _CheckTransientErrors first drops the entries older than one hour,
\* then counts the others only: it raises Credential iff at least 2 of them
\* are credential errors, otherwise Transient iff at least 4 of them are
\* other transient errors, otherwise nothing.
C32_WindowThresholds ==
  [][(qpc = "check" /\ qpc' # "check") =>
       LET credential == Cardinality(Remaining({"CredentialError"}))
           transient ==
             Cardinality(Remaining({"TransientError", "SQLTransientError"}))
       IN  /\ transient_errors' = SelectSeq(transient_errors, NotExpired)
           /\ qexc' = "CredentialError" <=>
                credential >= _CREDENTIAL_ERRORS_THRESHOLD
           /\ qexc' = "TransientError" <=>
                /\ credential < _CREDENTIAL_ERRORS_THRESHOLD
                /\ transient >= _TRANSIENT_ERRORS_THRESHOLD
           /\ qexc' = "none" <=>
                /\ credential < _CREDENTIAL_ERRORS_THRESHOLD
                /\ transient < _TRANSIENT_ERRORS_THRESHOLD
           /\ qpc' = IF qexc' = "none" THEN "poll" ELSE "raised"]_vars

\* The check has raised Transient on a window of one credential error and
\* four transient errors, the oldest exactly one hour old.
C32_Witness ==
  /\ qpc = "raised"
  /\ qexc = "TransientError"
  /\ Len(transient_errors) = 5
  /\ transient_errors[1].date = now - _TRANSIENT_ERRORS_VALIDITY
  /\ Cardinality({i \in DOMAIN transient_errors :
                    transient_errors[i].exc_type = "CredentialError"}) = 1

\* The nominal delay of a class, as configured.
NominalDelay(queue) ==
  CASE queue = "immediate" -> config.queue_min_delay
    [] queue = "normal" -> config.queue_delay_normal
    [] queue = "offline" -> config.queue_delay_offline

\* k is the integer part of 24 hours divided by job_count.
IsFloorOfDay(k, job_count) ==
  k * job_count <= 86400 /\ 86400 < (k + 1) * job_count

\* C33: a class of job_count waiting rows and nominal delay d gets the delay
\* d when job_count * d is at most 24 hours, and otherwise the larger of
\* floor(86400 / job_count) and queue-min-delay; the delay is never below
\* the floor of one second.
C33_EffectiveDelay ==
  [][(qpc = "delays" /\ qpc' # "delays") =>
       \A queue \in Priorities :
         LET job_count == job_counts[queue]
             d == NominalDelay(queue)
         IN  /\ job_count * d <= 86400 => delays'[queue] = d
             /\ job_count * d > 86400 =>
                  /\ delays'[queue] >= config.queue_min_delay
                  /\ \E k \in 0..86400 :
                       /\ IsFloorOfDay(k, job_count)
                       /\ delays'[queue] >= k
                       /\ delays'[queue] \in {k, config.queue_min_delay}
             /\ delays'[queue] >= 1]_vars

\* The delays have been computed for classes that all exceed 24 hours at
\* their nominal delay: one falls back on the minimal delay, two are shrunk.
C33_Witness ==
  /\ qpc = "next"
  /\ last.op = "delays"
  /\ job_counts = [immediate |-> 86400, normal |-> 8641, offline |-> 5761]
  /\ delays = [immediate |-> 4, normal |-> 9, offline |-> 14]

\* The class is warned about at this computation of the delays: the date of
\* its last warning becomes the date of the call.
OverflowLogged(queue) ==
  /\ last_overflow_warning'[queue] = now
  /\ last_overflow_warning[queue] # now

\* C34: a computation of the delays warns about a class iff the class still
\* needs more than 24 hours at its shrunken delay, the warning is enabled,
\* and the class was never warned about or was more than one hour ago (3601 s
\* ago warns again, 3599 s ago does not); the other classes play no part, and
\* a class that is not warned about keeps the date of its last warning.
C34_OverflowWarning ==
  [][(qpc = "delays" /\ qpc' # "delays") =>
       \A queue \in Priorities :
         /\ OverflowLogged(queue) <=>
              /\ delays'[queue] * job_counts[queue] > 86400
              /\ config.queue_warn_overflow
              /\ \/ last_overflow_warning[queue] = NULL
                 \/ now - last_overflow_warning[queue] > 3600
         /\ ~OverflowLogged(queue) =>
              last_overflow_warning'[queue] = last_overflow_warning[queue]
         /\ (last_overflow_warning[queue] # NULL
               /\ now - last_overflow_warning[queue] = 3599) =>
              ~OverflowLogged(queue)]_vars

\* All three classes overflow: the one warned about 3599 s ago is not warned
\* about again, the one warned about 3601 s ago and the one never warned
\* about are.
C34_Witness ==
  /\ qpc = "next"
  /\ last.op = "delays"
  /\ \A queue \in Priorities : delays[queue] * job_counts[queue] > 86400
  /\ last.warnings = [immediate |-> NULL, normal |-> now - 3599,
                      offline |-> now - 3601]
  /\ last_overflow_warning = [immediate |-> now, normal |-> now - 3599,
                              offline |-> now]

\* The calls of the directory client that retrieve an object.
RetrieveCalls == {"RetrieveUser", "RetrieveNicknames"}

\* C35: a failure of a call of the API is classified so: any HTTP status
\* 5xx is Transient; any status 4xx other than 401 and 403 is Permanent,
\* except that a 404 on a retrieve call is reported as absent, with no
\* error; a network error is Transient; any other exception is Transient.
C35_HttpClassification ==
  [][(qpc = "api" /\ qpc' # "api") =>
       LET error == last'.error
           missing == /\ error.class = "HttpError"
                      /\ error.status = 404
                      /\ last'.method \in RetrieveCalls
       IN  /\ (error.class = "HttpError" /\ error.status \in 500..599) =>
                qexc' = "TransientError"
           /\ (error.class = "HttpError" /\ error.status \in 400..499
                 /\ error.status \notin {401, 403} /\ ~missing) =>
                qexc' = "PermanentError"
           /\ error.class = "HttpLib2Error" => qexc' = "TransientError"
           /\ error.class = "Exception" => qexc' = "TransientError"
           /\ missing => qexc' = "none"]_vars

\* What the code does: of the 5xx answers only 500 is Transient, every
\* other HTTP answer is Permanent, except a 404 on RetrieveUser which is
\* reported as absent; network errors and other exceptions are Transient.
C35_CodeClassification ==
  [][(qpc = "api" /\ qpc' # "api") =>
       LET error == last'.error
           missing == /\ error.class = "HttpError"
                      /\ error.status = 404
                      /\ last'.method = "RetrieveUser"
       IN  /\ missing => qexc' = "none"
           /\ (error.class = "HttpError" /\ ~missing) =>
                qexc' = IF error.status = 500 THEN "TransientError"
                        ELSE "PermanentError"
           /\ error.class # "HttpError" => qexc' = "TransientError"]_vars

\* An answer 503 has been classified as a permanent error.
C35_Witness ==
  /\ last.op = "api"
  /\ last.error = [class |-> "HttpError", status |-> 503]
  /\ qexc = "PermanentError"

\* The admin rows the daemon would dispatch were they not admin rows.
DispatchableWereItNonAdmin ==
  {q \in DOMAIN rows :
     /\ rows[q].p_admin_request = TRUE
     /\ _ACTIVE_JOBS_WHERE_CLAUSE([rows[q] EXCEPT !.p_admin_request = FALSE],
                                  now)}

\* C36: the row the admin console offers to the operator is the admin row
\* with the smallest q_id among those the daemon would dispatch were they
\* not admin rows (a softfail admin row is not offered before its
\* p_notbefore_date), and the console finds no row only when there is none.
C36_ConsoleEligibility ==
  [][ /\ (cpc \in {"off", "update"} /\ cpc' = "ask") =>
           /\ cjobs'.q_id \in DispatchableWereItNonAdmin
           /\ \A q \in DispatchableWereItNonAdmin : cjobs'.q_id <= q
      /\ (cpc = "update" /\ cpc' = "off" /\ rows' = rows) =>
           DispatchableWereItNonAdmin = {} ]_vars

\* C37: no step of the daemon or of the admin console (MarkActive, Update,
\* MarkFailed, MarkAdmin) resets p_admin_request: a row that has it set keeps
\* it, so the row never satisfies the daemon's WHERE clause again.
C37_ParkingIsOneWay ==
  [][\A q \in DOMAIN rows :
       rows[q].p_admin_request = TRUE =>
         /\ q \in DOMAIN rows'
         /\ rows'[q].p_admin_request = TRUE
         /\ ~_ACTIVE_JOBS_WHERE_CLAUSE(rows'[q], now')]_vars

\* A row parked by the daemon has been run by the admin console and left in
\* softfail; its p_notbefore_date is reached, the queue manager has polled
\* again and does not count it.
C37_Witness ==
  /\ Polled
  /\ \E q \in DOMAIN rows :
       /\ rows[q].p_admin_request = TRUE
       /\ rows[q].p_status = STATUS_SOFTFAIL
       /\ rows[q].p_notbefore_date <= now
       /\ job_counts[rows[q].p_priority] = 0

\* C38: when the Run of a handler raises an exception that is neither
\* Transient nor Permanent, the queue manager writes nothing (the row stays
\* active, with its p_start_date and its softfail count), the exception
\* leaves the queue manager, and the step Daemon.Run takes on it enters
\* the backup mode, still without writing the row.
C38_UnknownException ==
  [][ /\ (qpc = "process" /\ last'.op = "process"
            /\ \E i \in DOMAIN last'.calls :
                 /\ last'.calls[i].call = "Run"
                 /\ last'.calls[i].raised = "Exception") =>
           /\ rows' = rows
           /\ rows[qjob.q_id].p_status = STATUS_ACTIVE
           /\ rows[qjob.q_id].p_start_date # NULL
           /\ transient_errors' = transient_errors
           /\ qpc' = "raised"
           /\ qexc' = "Exception"
      /\ (dpc = "run" /\ qpc = "raised" /\ qexc = "Exception") =>
           /\ dpc' = "backup"
           /\ rows' = rows ]_vars

\* The daemon is in backup mode after the unknown exception of a handler,
\* and the row of that handler is still active.
C38_Witness ==
  /\ dpc = "backup"
  /\ last.op = "except"
  /\ last.exc = "Exception"
  /\ \E q \in DOMAIN rows :
       /\ rows[q].j_type = "u_sync"
       /\ rows[q].p_status = STATUS_ACTIVE
       /\ rows[q].r_softfail_count = 0

\* C39: when Queue._ProcessJob returns without raising, the row it has
\* processed is no longer active: it is success, hardfail, softfail, or idle
\* with p_admin_request set; and the step makes no other row active, so the
\* rows the queue manager has dispatched are not active between two polls.
C39_NotLeftActive ==
  [][(qpc = "process" /\ qpc' = "next") =>
       /\ \/ rows'[qjob.q_id].p_status \in
               {STATUS_SUCCESS, STATUS_HARDFAIL, STATUS_SOFTFAIL}
          \/ /\ rows'[qjob.q_id].p_status = STATUS_IDLE
             /\ rows'[qjob.q_id].p_admin_request = TRUE
       /\ \A q \in DOMAIN rows' :
            rows'[q].p_status = STATUS_ACTIVE =>
              /\ q \in DOMAIN rows
              /\ q # qjob.q_id
              /\ rows[q].p_status = STATUS_ACTIVE]_vars

\* A handler that returned without writing anything: the queue manager has
\* gone on to the next job and the row, active during the run, is success.
C39_Witness ==
  /\ qpc = "next"
  /\ Processed
  /\ last.pre.p_status = STATUS_ACTIVE
  /\ \E i \in DOMAIN last.calls :
       last.calls[i].call = "Run" /\ last.calls[i].did = "silent"
  /\ rows[last.q].p_status = STATUS_SUCCESS

\* The non-admin rows in a status that is not final.
Pending ==
  {q \in DOMAIN rows :
     /\ rows[q].p_admin_request = FALSE
     /\ rows[q].p_status \in {STATUS_IDLE, STATUS_ACTIVE, STATUS_SOFTFAIL}}

\* The date from which a pending row has reached its p_notbefore_date and,
\* if it was started, the end of its lease of 90 seconds.
ReadyDate(r) ==
  Max2(r.p_notbefore_date,
       IF r.p_start_date = NULL THEN 0 ELSE r.p_start_date + ACTIVE_LEASE)

\* C40: whatever dispatches, outcomes, failed writes and restarts have
\* happened, every non-admin row that is idle, active or softfail has a
\* p_notbefore_date and is dispatchable from the date when that date is
\* reached and the lease of its start, if any, has run out; a poll made
\* from that date on counts it.
C40_NeverStuck ==
  /\ \A q \in Pending :
       /\ rows[q].p_notbefore_date # NULL
       /\ \A t \in {ReadyDate(rows[q]), ReadyDate(rows[q]) + 1,
                    Max2(ReadyDate(rows[q]), now)} :
            _ACTIVE_JOBS_WHERE_CLAUSE(rows[q], t)
  /\ Polled =>
       \A queue \in Priorities :
         job_counts[queue] >=
           Cardinality({q \in Pending : /\ rows[q].p_priority = queue
                                        /\ ReadyDate(rows[q]) <= now})

\* After a restart of the queue manager, a poll counts a row that a
\* previous run has left active and whose lease has run out, next to a row
\* whose outcome is softfail.
C40_Witness ==
  /\ Polled
  /\ d_transient_errors # <<>>
  /\ \E q \in Pending :
       /\ rows[q].p_status = STATUS_ACTIVE
       /\ ReadyDate(rows[q]) <= now
       /\ job_counts[rows[q].p_priority] >= 1
  /\ \E q \in Pending : rows[q].p_status = STATUS_SOFTFAIL

=============================================================================
